---- MODULE Spec2Model ----
(***************************************************************************)
(* The incremental search engine of robonav: PathfindingState              *)
(* (src/src/pathfinding_state.rs) stepping BFS, DFS or A* over a Grid      *)
(* (src/src/grid.rs), one pop per step call.                               *)
(*                                                                         *)
(* A Position is the pair <<x, y>>.  An Option is a sequence: <<>> is None *)
(* and <<v>> is Some(v).  A HashMap is a function whose DOMAIN is its key  *)
(* set.  The BinaryHeap is its backing vector, with the sift operations of *)
(* the standard library, so that ties are popped as in the program.        *)
(***************************************************************************)
EXTENDS Integers, Sequences, FiniteSets, TLC

\* ---------------------------------------------------------------- bounds
GridW == 4
GridH == 3
MaxObstacles == 2
\* the wider grid of the A* runs with several stale entries
WideW == 5
WideH == 3
\* the grids of every classification, for the marking operations alone,
\* and the longest slice of positions handed to them
MarkW == 2
MarkH == 1
MaxMarked == 2
\* the grid of the runs in which closed_set is iterated in every order
HashW == 3
HashH == 2
\* the side of the empty square grid of the corner-to-corner scenarios
ScenarioSize == 5

\* Costs of the nodes that are compared: 0..MaxCost.
MaxCost == 2

\* Grid whose walkability queries are checked one by one.
OracleW == 2
OracleH == 2

\* Grid on which a running search is re-initialised.
ReinitW == 3
ReinitH == 2

\* ------------------------------------------------------------- utilities
None == <<>>
Some(v) == <<v>>

Algorithms == {"AStar", "Bfs", "Dfs"}

EmptyMap == [k \in {} |-> 0]

\* HashMap::insert
MapInsert(m, k, v) == [x \in (DOMAIN m) \cup {k} |-> IF x = k THEN v ELSE m[x]]

\* the elements of a set of positions as a sequence: the listing from which
\* iter_order counts the orders of the set (Position itself has no order)
PosLess(a, b) == a[1] < b[1] \/ (a[1] = b[1] /\ a[2] < b[2])

SetToSeq(S) ==
    [i \in 1..Cardinality(S) |->
        CHOOSE e \in S : Cardinality({x \in S : PosLess(x, e)}) = i - 1]

RECURSIVE Factorial(_)
Factorial(n) == IF n <= 1 THEN 1 ELSE n * Factorial(n - 1)

\* the permutation number k of s: k is read in the factorial number system,
\* each digit picks the next element among those that remain
RECURSIVE Permute(_, _)
Permute(s, k) ==
    IF s = <<>> THEN <<>>
    ELSE <<s[(k % Len(s)) + 1]>>
         \o Permute(SubSeq(s, 1, k % Len(s)) \o SubSeq(s, (k % Len(s)) + 2, Len(s)),
                    k \div Len(s))

Reverse(s) == [i \in 1..Len(s) |-> s[Len(s) + 1 - i]]

\* -------------------------------------------------------------- Position
Abs(n) == IF n < 0 THEN -n ELSE n

manhattan_distance_to(a, b) == Abs(a[1] - b[1]) + Abs(a[2] - b[2])

\* variant of neighbors: west left out
neighbors_no_west(p) ==
    <<<<p[1], p[2] - 1>>, <<p[1] + 1, p[2]>>, <<p[1], p[2] + 1>>>>

\* variant of neighbors: west, east, north, south
neighbors_west_first(p) ==
    << <<p[1] - 1, p[2]>>, <<p[1] + 1, p[2]>>, <<p[1], p[2] - 1>>, <<p[1], p[2] + 1>> >>

\* north, east, south, west
neighbors(p) ==
    << <<p[1], p[2] - 1>>, <<p[1] + 1, p[2]>>, <<p[1], p[2] + 1>>, <<p[1] - 1, p[2]>> >>

\* ------------------------------------------------------------------ Grid
CellTypes == {"Empty", "Obstacle", "Start", "Goal", "Path", "Visited", "Frontier", "Current"}

Cells(w, h) == (0..(w - 1)) \X (0..(h - 1))

\* variant of is_valid_position: the last column and the last row left out
is_valid_position_short(g, pos) ==
    pos[1] >= 0 /\ pos[1] < g.width - 1 /\ pos[2] >= 0 /\ pos[2] < g.height - 1

is_valid_position(g, pos) ==
    pos[1] >= 0 /\ pos[1] < g.width /\ pos[2] >= 0 /\ pos[2] < g.height

get_cell(g, pos) ==
    IF is_valid_position(g, pos) THEN g.cells[pos] ELSE "Obstacle"

set_cell(g, pos, cell_type) ==
    IF is_valid_position(g, pos)
    THEN [g EXCEPT !.cells = [@ EXCEPT ![pos] = cell_type]]
    ELSE g

\* variant of is_walkable: the obstacle test left out
is_walkable_in_bounds(g, pos) == is_valid_position(g, pos)

is_walkable(g, pos) == is_valid_position(g, pos) /\ get_cell(g, pos) /= "Obstacle"

get_walkable_neighbors(g, pos) ==
    SelectSeq(neighbors(pos), LAMBDA n : is_walkable(g, n))

clear_pathfinding_cells(g) ==
    [g EXCEPT !.cells = [c \in DOMAIN @ |->
                           IF @[c] \in {"Visited", "Frontier", "Current", "Path"}
                           THEN "Empty" ELSE @[c]]]

mark_current(g, pos) == set_cell(g, pos, "Current")

mark_previous_node_as_visited(g, position) == set_cell(g, position, "Visited")

\* one iteration of the loop of mark_path
mark_path_cell(g, pos, start_pos, goal_pos) ==
    IF Some(pos) /= start_pos /\ Some(pos) /= goal_pos
    THEN set_cell(g, pos, "Path")
    ELSE g

RECURSIVE mark_path(_, _, _, _)
mark_path(g, path, start_pos, goal_pos) ==
    IF path = <<>> THEN g
    ELSE mark_path(mark_path_cell(g, Head(path), start_pos, goal_pos),
                   Tail(path), start_pos, goal_pos)

\* variant of mark_visited_cell: the classification of the cell not tested
mark_visited_cell_any(g, pos, start_pos, goal_pos) ==
    IF Some(pos) /= start_pos /\ Some(pos) /= goal_pos
    THEN set_cell(g, pos, "Visited")
    ELSE g

\* one iteration of the loop of mark_visited; && binds tighter than ||
mark_visited_cell(g, pos, start_pos, goal_pos) ==
    IF (Some(pos) /= start_pos /\ Some(pos) /= goal_pos /\ get_cell(g, pos) = "Empty")
       \/ get_cell(g, pos) = "Frontier"
    THEN set_cell(g, pos, "Visited")
    ELSE g

\* the loop over positions, in order: the first half, then the second half
\* (in a grid without cells no position is valid and set_cell does nothing)
RECURSIVE mark_visited(_, _, _, _)
mark_visited(g, positions, start_pos, goal_pos) ==
    IF DOMAIN g.cells = {} \/ positions = <<>> THEN g
    ELSE IF Len(positions) = 1
    THEN mark_visited_cell(g, positions[1], start_pos, goal_pos)
    ELSE mark_visited(mark_visited(g, SubSeq(positions, 1, Len(positions) \div 2),
                                   start_pos, goal_pos),
                      SubSeq(positions, Len(positions) \div 2 + 1, Len(positions)),
                      start_pos, goal_pos)

mark_frontier_cell(g, pos, start_pos, goal_pos) ==
    IF Some(pos) /= start_pos /\ Some(pos) /= goal_pos /\ get_cell(g, pos) = "Empty"
    THEN set_cell(g, pos, "Frontier")
    ELSE g

RECURSIVE mark_frontier(_, _, _, _)
mark_frontier(g, positions, start_pos, goal_pos) ==
    IF positions = <<>> THEN g
    ELSE mark_frontier(mark_frontier_cell(g, Head(positions), start_pos, goal_pos),
                       Tail(positions), start_pos, goal_pos)

\* ------------------------------------------------------------------ Node
\* Node::new
NodeNew(position, g_cost, h_cost) ==
    [position |-> position, g_cost |-> g_cost, h_cost |-> h_cost]

\* variant of f_cost: the heuristic left out
f_cost_g_only(n) == n.g_cost

f_cost(n) == n.g_cost + n.h_cost

\* #[derive(PartialEq, Eq)] of crate::node::Node, the Node of the engine:
\* field by field
NodeEq(self, other) ==
    /\ self.position = other.position
    /\ self.g_cost = other.g_cost
    /\ self.h_cost = other.h_cost

\* impl PartialEq of the Node of src/app/node.rs
AppNodeEq(self, other) == self.position = other.position

IntCmp(a, b) == IF a < b THEN "Less" ELSE IF a = b THEN "Equal" ELSE "Greater"

\* variant of NodeCmp: the comparison not reversed (the largest f_cost first)
NodeCmpNotReversed(self, other) ==
    IF f_cost(self) = f_cost(other)
    THEN IntCmp(self.h_cost, other.h_cost)
    ELSE IntCmp(f_cost(self), f_cost(other))

\* variant of NodeCmp: no tie-break on h_cost
NodeCmpByFOnly(self, other) == IntCmp(f_cost(other), f_cost(self))

\* impl Ord for Node: reversed on f_cost, then reversed on h_cost
NodeCmp(self, other) ==
    IF IntCmp(f_cost(other), f_cost(self)) = "Equal"
    THEN IntCmp(other.h_cost, self.h_cost)
    ELSE IntCmp(f_cost(other), f_cost(self))

NodeLe(a, b) == NodeCmp(a, b) /= "Greater"

\* Ordering::then_with
then_with(first, second) == IF first /= "Equal" THEN first ELSE second

\* impl Ord of the Node of src/app/node.rs
AppNodeCmp(self, other) ==
    then_with(IntCmp(f_cost(other), f_cost(self)),
              IntCmp(other.h_cost, self.h_cost))

\* ------------------------------------------------- BinaryHeap<Node> (Vec)
\* data is the backing vector; index i of the program is data[i + 1]
RECURSIVE sift_up(_, _, _, _)
sift_up(data, start, pos, elt) ==
    IF pos > start /\ ~NodeLe(elt, data[((pos - 1) \div 2) + 1])
    THEN sift_up([data EXCEPT ![pos + 1] = data[((pos - 1) \div 2) + 1]],
                 start, (pos - 1) \div 2, elt)
    ELSE [data EXCEPT ![pos + 1] = elt]

\* child += (hole.get(child) <= hole.get(child + 1)) as usize
greater_child(data, child) ==
    IF NodeLe(data[child + 1], data[child + 2]) THEN child + 1 ELSE child

\* hole.move_to(child), then on from child
RECURSIVE sift_down_to_bottom(_, _, _, _)
move_down(data, start, pos, elt, child) ==
    sift_down_to_bottom([data EXCEPT ![pos + 1] = data[child + 1]], start, child, elt)

sift_down_to_bottom(data, start, pos, elt) ==
    IF Len(data) >= 2 /\ 2 * pos + 1 <= Len(data) - 2
    THEN move_down(data, start, pos, elt, greater_child(data, 2 * pos + 1))
    ELSE IF 2 * pos + 1 = Len(data) - 1
         THEN sift_up([data EXCEPT ![pos + 1] = data[2 * pos + 2]], start, 2 * pos + 1, elt)
         ELSE sift_up(data, start, pos, elt)

heap_push(data, item) == sift_up(Append(data, item), 0, Len(data), item)

\* variant of heap_pop: the last element of the vector is taken
heap_pop_last(data) ==
    [item |-> data[Len(data)], data |-> SubSeq(data, 1, Len(data) - 1)]

\* the popped item and the vector that remains: the last element replaces
\* the root and is sifted down
heap_pop(data) ==
    IF Len(data) = 1
    THEN [item |-> data[1], data |-> <<>>]
    ELSE [item |-> data[1],
          data |-> sift_down_to_bottom(SubSeq(data, 1, Len(data) - 1), 0, 0, data[Len(data)])]

\* ------------------------------------------------------ PathfindingState
\* #[derive(Default)]: every collection empty, counters zero, options None
DefaultState ==
    [open_set |-> <<>>, bfs_queue |-> <<>>, dfs_stack |-> <<>>,
     closed_set |-> {}, came_from |-> EmptyMap,
     g_costs |-> EmptyMap, h_costs |-> EmptyMap, f_costs |-> EmptyMap,
     current_node |-> None, step_count |-> 0,
     last_step_info |-> [kind |-> "empty"], last_neighbors |-> <<>>,
     previous_node |-> None, hash_seed |-> 0]

\* closed_set.iter(): the elements in the order the RandomState and the
\* table of the HashSet give them, which may be any order and another one at
\* every call; hash_seed is the number of the order of the next call
iter_order(S, seed) == Permute(SetToSeq(S), seed)

\* variant of initialize: every frontier is seeded, whatever the algorithm
initialize_all_frontiers(algorithm, start_, goal_) ==
    [DefaultState EXCEPT
       !.open_set = heap_push(<<>>, [position |-> start_, g_cost |-> 0,
                                     h_cost |-> manhattan_distance_to(start_, goal_)]),
       !.bfs_queue = <<start_>>,
       !.dfs_stack = <<start_>>,
       !.g_costs = MapInsert(EmptyMap, start_, 0)]

\* variant of initialize: the A* seed records no heuristic for start
initialize_without_h(algorithm, start_, goal_) ==
    CASE algorithm = "AStar" ->
           [DefaultState EXCEPT
              !.open_set = heap_push(<<>>, [position |-> start_, g_cost |-> 0,
                                            h_cost |-> manhattan_distance_to(start_, goal_)]),
              !.g_costs = MapInsert(EmptyMap, start_, 0)]
      [] algorithm = "Bfs" ->
           [DefaultState EXCEPT !.bfs_queue = <<start_>>,
                                !.g_costs = MapInsert(EmptyMap, start_, 0)]
      [] algorithm = "Dfs" ->
           [DefaultState EXCEPT !.dfs_stack = <<start_>>,
                                !.g_costs = MapInsert(EmptyMap, start_, 0)]

initialize(algorithm, start_, goal_) ==
    CASE algorithm = "AStar" ->
           [DefaultState EXCEPT
              !.open_set = heap_push(<<>>, [position |-> start_, g_cost |-> 0,
                                            h_cost |-> manhattan_distance_to(start_, goal_)]),
              !.g_costs = MapInsert(EmptyMap, start_, 0),
              !.h_costs = MapInsert(EmptyMap, start_, manhattan_distance_to(start_, goal_)),
              !.f_costs = MapInsert(EmptyMap, start_, manhattan_distance_to(start_, goal_))]
      [] algorithm = "Bfs" ->
           [DefaultState EXCEPT !.bfs_queue = <<start_>>,
                                !.g_costs = MapInsert(EmptyMap, start_, 0)]
      [] algorithm = "Dfs" ->
           [DefaultState EXCEPT !.dfs_stack = <<start_>>,
                                !.g_costs = MapInsert(EmptyMap, start_, 0)]

\* the walk of reconstruct_path from current back along came_from; path is
\* collected goal first.  The walk of the program has no bound: fuel only
\* marks the walk that would never end (a cycle in came_from).
RECURSIVE reconstruct_walk(_, _, _, _)
reconstruct_walk(came_from, current, path, fuel) ==
    IF current \in DOMAIN came_from
    THEN IF fuel = 0 THEN Append(path, <<-1, -1>>)
         ELSE reconstruct_walk(came_from, came_from[current], Append(path, current), fuel - 1)
    ELSE Append(path, current)

\* variant of reconstruct_path: the final push of the start left out
reconstruct_path_no_start(ps, goal_) ==
    Reverse(Tail(Reverse(reconstruct_walk(ps.came_from, goal_, <<>>,
                                          Cardinality(DOMAIN ps.came_from)))))

reconstruct_path(ps, goal_) ==
    Reverse(reconstruct_walk(ps.came_from, goal_, <<>>, Cardinality(DOMAIN ps.came_from)))

\* the three step outcomes
Continue == [kind |-> "Continue", path |-> <<>>]
NoPath == [kind |-> "NoPath", path |-> <<>>]
PathFound(path) == [kind |-> "PathFound", path |-> path]

\* variant of age_marker: the previous node is not aged
age_marker_current_only(ps, g, current) == mark_current(g, current)

\* the marker ageing shared by the three step functions
age_marker(ps, g, current) ==
    mark_current(IF ps.previous_node /= None
                 THEN mark_previous_node_as_visited(g, ps.previous_node[1])
                 ELSE g,
                 current)

\* variant of closed_insert: the set replaced instead of extended
closed_insert_only(closed_set, current) == {current}

\* variant of closed_insert: the popped position is not inserted
closed_insert_skipped(closed_set, current) == closed_set

\* closed_set.insert(current)
closed_insert(closed_set, current) == closed_set \cup {current}

\* what a step returns: the state and the grid it leaves, its outcome, and
\* the positions it wrote came_from for (and pushed), in order
StepOut(ps, g, result, pushed) ==
    [ps |-> ps, grid |-> g, result |-> result, pushed |-> pushed]

\* ------------------------------------------------------------ step_astar
\* the inner loop over open_snapshot: the first entry that blocks neighbor_pos
RECURSIVE astar_blocking(_, _, _, _)
astar_blocking(open_snapshot, i, neighbor_pos, tentative_g) ==
    IF i > Len(open_snapshot) THEN None
    ELSE IF open_snapshot[i].position = neighbor_pos /\ open_snapshot[i].g_cost <= tentative_g
         THEN Some(open_snapshot[i])
         ELSE astar_blocking(open_snapshot, i + 1, neighbor_pos, tentative_g)

\* variant of astar_should_add: < in place of <=, so that a tie is admitted
astar_should_add_ties(open_snapshot, neighbor_pos, tentative_g) ==
    \A i \in 1..Len(open_snapshot) :
        ~(open_snapshot[i].position = neighbor_pos /\ open_snapshot[i].g_cost < tentative_g)

\* variant of astar_should_add: every neighbor is admitted
astar_should_add_always(open_snapshot, neighbor_pos, tentative_g) == TRUE

\* variant of astar_should_add: any entry for the position blocks, whatever
\* its g_cost
astar_should_add_unseen(open_snapshot, neighbor_pos, tentative_g) ==
    \A i \in 1..Len(open_snapshot) : open_snapshot[i].position /= neighbor_pos

astar_should_add(open_snapshot, neighbor_pos, tentative_g) ==
    astar_blocking(open_snapshot, 1, neighbor_pos, tentative_g) = None

\* variant of astar_neighbors: the neighbors collected in a HashSet and
\* taken in its iteration order
astar_neighbors_hashed(ps, g, position) ==
    iter_order({pos \in DOMAIN g.cells :
                  /\ \E i \in 1..4 : neighbors(position)[i] = pos
                  /\ is_walkable(g, pos)
                  /\ pos \notin ps.closed_set},
               ps.hash_seed)

\* variant of astar_neighbors: closed_set not consulted
astar_neighbors_unfiltered(ps, g, position) == get_walkable_neighbors(g, position)

\* the neighbors filtered by closed_set
astar_neighbors(ps, g, position) ==
    SelectSeq(get_walkable_neighbors(g, position), LAMBDA pos : pos \notin ps.closed_set)

\* the NeighborInfo of the first loop, for one neighbor
astar_neighbor_info(open_snapshot, neighbor_pos, tentative_g, h_cost) ==
    [pos |-> neighbor_pos, g |-> Some(tentative_g), h |-> Some(h_cost),
     f |-> Some(tentative_g + h_cost),
     decision |-> IF astar_should_add(open_snapshot, neighbor_pos, tentative_g)
                  THEN "push" ELSE "skip: existing g <= tentative g"]

\* variant of astar_infos: the heuristic taken at the popped position
astar_infos_h_of_current(open_snapshot, current_node, nbrs, goal_) ==
    [i \in 1..Len(nbrs) |->
        astar_neighbor_info(open_snapshot, nbrs[i], current_node.g_cost + 1,
                            manhattan_distance_to(current_node.position, goal_))]

\* the first loop: one NeighborInfo for every neighbor
astar_infos(open_snapshot, current_node, nbrs, goal_) ==
    [i \in 1..Len(nbrs) |->
        astar_neighbor_info(open_snapshot, nbrs[i], current_node.g_cost + 1,
                            manhattan_distance_to(nbrs[i], goal_))]

\* variant of astar_nodes: the node takes the g_cost of the popped node,
\* without the step
astar_nodes_without_step(admitted) ==
    [i \in 1..Len(admitted) |->
        [position |-> admitted[i].pos, g_cost |-> admitted[i].g[1] - 1,
         h_cost |-> admitted[i].h[1]]]

\* neighbors_to_add: the nodes of the neighbors whose decision is "push"
astar_nodes(admitted) ==
    [i \in 1..Len(admitted) |->
        [position |-> admitted[i].pos, g_cost |-> admitted[i].g[1], h_cost |-> admitted[i].h[1]]]

\* variant of astar_add: the parent of a position that has one is kept
RECURSIVE astar_add_keep_parent(_, _, _, _)
astar_add_keep_parent(acc, neighbors_to_add, i, current_node) ==
    IF i > Len(neighbors_to_add) THEN acc
    ELSE astar_add_keep_parent(
           [ps |-> [acc.ps EXCEPT
                      !.came_from =
                          IF neighbors_to_add[i].position \in DOMAIN @ THEN @
                          ELSE MapInsert(@, neighbors_to_add[i].position,
                                         current_node.position),
                      !.g_costs = MapInsert(@, neighbors_to_add[i].position,
                                            neighbors_to_add[i].g_cost),
                      !.h_costs = MapInsert(@, neighbors_to_add[i].position,
                                            neighbors_to_add[i].h_cost),
                      !.f_costs = MapInsert(@, neighbors_to_add[i].position,
                                            neighbors_to_add[i].g_cost
                                            + neighbors_to_add[i].h_cost),
                      !.open_set = heap_push(@, neighbors_to_add[i])],
            grid |-> mark_frontier(acc.grid, <<neighbors_to_add[i].position>>, None, None)],
           neighbors_to_add, i + 1, current_node)

\* the second loop: came_from, the cost maps, open_set and the grid
RECURSIVE astar_add(_, _, _, _)
astar_add(acc, neighbors_to_add, i, current_node) ==
    IF i > Len(neighbors_to_add) THEN acc
    ELSE astar_add(
           [ps |-> [acc.ps EXCEPT
                      !.came_from = MapInsert(@, neighbors_to_add[i].position,
                                              current_node.position),
                      !.g_costs = MapInsert(@, neighbors_to_add[i].position,
                                            neighbors_to_add[i].g_cost),
                      !.h_costs = MapInsert(@, neighbors_to_add[i].position,
                                            neighbors_to_add[i].h_cost),
                      !.f_costs = MapInsert(@, neighbors_to_add[i].position,
                                            neighbors_to_add[i].g_cost
                                            + neighbors_to_add[i].h_cost),
                      !.open_set = heap_push(@, neighbors_to_add[i])],
            grid |-> mark_frontier(acc.grid, <<neighbors_to_add[i].position>>, None, None)],
           neighbors_to_add, i + 1, current_node)

\* the end of a step that returns Continue: mark_visited over closed_set
step_continue(acc, pushed) ==
    StepOut(acc.ps,
            mark_visited(acc.grid, iter_order(acc.ps.closed_set, acc.ps.hash_seed),
                         None, None),
            Continue, pushed)

\* from the neighbor log of the first loop to the end of the step
astar_admit(ps, g, current_node, infos, admitted) ==
    step_continue(astar_add([ps |-> [ps EXCEPT !.last_neighbors = infos], grid |-> g],
                            astar_nodes(admitted), 1, current_node),
                  [i \in 1..Len(admitted) |-> admitted[i].pos])

astar_log(ps, g, current_node, infos) ==
    astar_admit(ps, g, current_node, infos,
                SelectSeq(infos, LAMBDA inf : inf.decision = "push"))

\* after the pop and its bookkeeping: the goal test, then the neighbors
astar_expand(ps, g, current_node, goal_) ==
    IF current_node.position = goal_
    THEN StepOut(ps, g, PathFound(reconstruct_path(ps, current_node.position)), <<>>)
    ELSE astar_log(ps, g, current_node,
                   astar_infos(ps.open_set, current_node,
                               astar_neighbors(ps, g, current_node.position), goal_))

\* the pop and its bookkeeping; popped is what open_set.pop() gave and left
astar_popped(ps, goal_, g, popped) ==
    astar_expand(
      [ps EXCEPT !.open_set = popped.data,
                 !.closed_set = closed_insert(@, popped.item.position),
                 !.current_node = Some(popped.item.position),
                 !.step_count = @ + 1,
                 !.previous_node = Some(popped.item.position),
                 !.last_step_info =
                     [kind |-> "pop", step |-> ps.step_count + 1,
                      pos |-> popped.item.position,
                      g |-> popped.item.g_cost, h |-> popped.item.h_cost,
                      f |-> popped.item.g_cost + popped.item.h_cost,
                      frontier |-> Len(popped.data),
                      closed |-> Cardinality(closed_insert(ps.closed_set,
                                                           popped.item.position))],
                 !.last_neighbors = <<>>],
      age_marker(ps, g, popped.item.position), popped.item, goal_)

step_astar(ps, goal_, g) ==
    IF ps.open_set = <<>>
    THEN StepOut([ps EXCEPT !.last_step_info = [kind |-> "Open set empty"]], g, NoPath, <<>>)
    ELSE astar_popped(ps, goal_, g, heap_pop(ps.open_set))

\* ------------------------------------------------- step_bfs and step_dfs
\* variants of already_seen: one of the two tests left out
already_seen_came_from_only(ps, neighbor) == neighbor \in DOMAIN ps.came_from

already_seen_closed_only(ps, neighbor) == neighbor \in ps.closed_set

\* the admission test shared by BFS and DFS
\* variant of already_seen: a position on the frontier counts as seen, a
\* closed one does not
already_seen_on_frontier(ps, neighbor) ==
    \/ \E i \in 1..Len(ps.bfs_queue) : ps.bfs_queue[i] = neighbor
    \/ \E i \in 1..Len(ps.dfs_stack) : ps.dfs_stack[i] = neighbor

already_seen(ps, neighbor) ==
    neighbor \in ps.closed_set \/ neighbor \in DOMAIN ps.came_from

\* the neighbor loop of step_bfs (frontier "bfs_queue", decision "enqueue")
\* and of step_dfs (frontier "dfs_stack", decision "push"); both append
RECURSIVE discover(_, _, _, _, _, _, _)
discover(acc, nbrs, i, current, g_cur, frontier, decision) ==
    IF i > Len(nbrs) THEN acc
    ELSE IF already_seen(acc.ps, nbrs[i])
         THEN discover([acc EXCEPT !.ps.last_neighbors =
                            Append(@, [pos |-> nbrs[i], g |-> None, h |-> None, f |-> None,
                                       decision |-> "skip: already seen"])],
                       nbrs, i + 1, current, g_cur, frontier, decision)
         ELSE discover(
                [ps |-> [acc.ps EXCEPT
                           !.came_from = MapInsert(@, nbrs[i], current),
                           !.g_costs = MapInsert(@, nbrs[i], g_cur + 1),
                           ![frontier] = Append(@, nbrs[i]),
                           !.last_neighbors =
                               Append(@, [pos |-> nbrs[i], g |-> Some(g_cur + 1), h |-> None,
                                          f |-> None, decision |-> decision])],
                 grid |-> mark_frontier(acc.grid, <<nbrs[i]>>, None, None),
                 pushed |-> Append(acc.pushed, nbrs[i])],
                nbrs, i + 1, current, g_cur, frontier, decision)

\* variant of pop_front: the back is taken
pop_front_lifo(queue) ==
    [item |-> queue[Len(queue)], rest |-> SubSeq(queue, 1, Len(queue) - 1)]

\* VecDeque::pop_front and Vec::pop: the element removed and what is kept
pop_front(queue) == [item |-> Head(queue), rest |-> Tail(queue)]

\* variant of pop_back: the last element read and left on the stack
pop_back_peek(stack) == [item |-> stack[Len(stack)], rest |-> stack]

pop_back(stack) == [item |-> stack[Len(stack)], rest |-> SubSeq(stack, 1, Len(stack) - 1)]

bfs_neighbors(g, current) == get_walkable_neighbors(g, current)

\* variant of dfs_neighbors: the reversal left out
dfs_neighbors_not_reversed(g, current) == get_walkable_neighbors(g, current)

\* neighbors.reverse()
dfs_neighbors(g, current) == Reverse(get_walkable_neighbors(g, current))

\* variant of g_cost_or_zero: the cost of the popped position not read
g_cost_always_zero(ps, current) == 0

\* self.g_costs.get(&current).unwrap_or(&0)
g_cost_or_zero(ps, current) ==
    IF current \in DOMAIN ps.g_costs THEN ps.g_costs[current] ELSE 0

\* the end of step_bfs and step_dfs after the neighbor loop
discovered(acc) == step_continue(acc, acc.pushed)

\* variant of popped_expand: the goal test made after the neighbor loop
popped_expand_goal_last(ps, g, current, goal_, a) ==
    LET out == discovered(discover([ps |-> ps, grid |-> g, pushed |-> <<>>],
                                   IF a = "Bfs" THEN bfs_neighbors(g, current)
                                                ELSE dfs_neighbors(g, current),
                                   1, current, g_cost_or_zero(ps, current),
                                   IF a = "Bfs" THEN "bfs_queue" ELSE "dfs_stack",
                                   IF a = "Bfs" THEN "enqueue" ELSE "push"))
    IN IF current = goal_
       THEN [out EXCEPT !.result = PathFound(reconstruct_path(out.ps, current))]
       ELSE out

\* after the pop and its bookkeeping: the goal test, then the neighbor loop
\* of step_bfs (a = "Bfs") or of step_dfs (a = "Dfs")
popped_expand(ps, g, current, goal_, a) ==
    IF current = goal_
    THEN StepOut(ps, g, PathFound(reconstruct_path(ps, current)), <<>>)
    ELSE discovered(discover([ps |-> ps, grid |-> g, pushed |-> <<>>],
                             IF a = "Bfs" THEN bfs_neighbors(g, current)
                                          ELSE dfs_neighbors(g, current),
                             1, current, g_cost_or_zero(ps, current),
                             IF a = "Bfs" THEN "bfs_queue" ELSE "dfs_stack",
                             IF a = "Bfs" THEN "enqueue" ELSE "push"))

\* the pop and its bookkeeping in step_bfs and step_dfs; popped is the
\* element removed from the frontier and what the frontier keeps
step_popped(ps, goal_, g, a, popped) ==
    popped_expand(
      [ps EXCEPT ![IF a = "Bfs" THEN "bfs_queue" ELSE "dfs_stack"] = popped.rest,
                 !.current_node = Some(popped.item),
                 !.closed_set = closed_insert(@, popped.item),
                 !.step_count = @ + 1,
                 !.previous_node = Some(popped.item),
                 !.last_step_info =
                     [kind |-> "pop", step |-> ps.step_count + 1, pos |-> popped.item,
                      g |-> g_cost_or_zero(ps, popped.item),
                      frontier |-> Len(popped.rest),
                      closed |-> Cardinality(closed_insert(ps.closed_set, popped.item))],
                 !.last_neighbors = <<>>],
      age_marker(ps, g, popped.item), popped.item, goal_, a)

step_bfs(ps, goal_, g) ==
    IF ps.bfs_queue = <<>>
    THEN StepOut([ps EXCEPT !.last_step_info = [kind |-> "Queue empty"]], g, NoPath, <<>>)
    ELSE step_popped(ps, goal_, g, "Bfs", pop_front(ps.bfs_queue))

\* variant of step_dfs: the call on an empty stack is counted as a step
step_dfs_counting_empty(ps, goal_, g) ==
    IF ps.dfs_stack = <<>>
    THEN StepOut([ps EXCEPT !.last_step_info = [kind |-> "Stack empty"],
                            !.step_count = @ + 1], g, NoPath, <<>>)
    ELSE step_popped(ps, goal_, g, "Dfs", pop_back(ps.dfs_stack))

step_dfs(ps, goal_, g) ==
    IF ps.dfs_stack = <<>>
    THEN StepOut([ps EXCEPT !.last_step_info = [kind |-> "Stack empty"]], g, NoPath, <<>>)
    ELSE step_popped(ps, goal_, g, "Dfs", pop_back(ps.dfs_stack))

step(ps, algorithm, goal_, g) ==
    CASE algorithm = "AStar" -> step_astar(ps, goal_, g)
      [] algorithm = "Bfs" -> step_bfs(ps, goal_, g)
      [] algorithm = "Dfs" -> step_dfs(ps, goal_, g)

\* ---------------------------------------------------------- state machine
\* ps: the PathfindingState; grid: the Grid handed to every step;
\* algorithm, start, goal: what the caller passes to initialize and step;
\* result: the StepResult of the last step call;
\* came_from_writes: per position, how many times a step executed
\* came_from.insert for it (each insert comes with one push or enqueue);
\* marking: the last marking operation a caller applied to the Grid itself;
\* grid0: that Grid as the caller built it, before the first step (under
\* SpecMark: the Grid before the last call);
\* call: the last call of a function of Node, of a query of Grid or of a
\* handler of the application, with its arguments and what it returned;
\* app: the RobotNavigationApp of main.rs;
\* clicks: the clicks on the grid of the application so far
VARIABLES ps, grid, grid0, algorithm, start, goal, result, came_from_writes, marking,
          call, app, clicks

vars ==
    <<ps, grid, grid0, algorithm, start, goal, result, came_from_writes, marking, call, app, clicks>>

NoMarking == [op |-> "none"]

NoCall == [op |-> "none"]

\* the engine is used without the application of main.rs around it
NoApp == [is_solving |-> FALSE]

NoResult == [kind |-> "None", path |-> <<>>]

Terminal == {"PathFound", "NoPath"}

\* the sets of at most k cells
RECURSIVE UpTo(_, _)
UpTo(cells, k) ==
    IF k = 0 THEN {{}}
    ELSE UNION {{s} \cup {s \cup {c} : c \in cells} : s \in UpTo(cells, k - 1)}

\* Grid::new, then the caller's obstacles, start and goal
NewGrid(w, h, obstacles, s, t) ==
    [width |-> w, height |-> h,
     cells |-> [c \in Cells(w, h) |->
                  IF c \in obstacles THEN "Obstacle"
                  ELSE IF c = t THEN "Goal"
                  ELSE IF c = s THEN "Start"
                  ELSE "Empty"]]

\* PathfindingState::new() and a grid of the caller
InitOn(w, h, maxObstacles) ==
    /\ \E obstacles \in UpTo(Cells(w, h), maxObstacles) :
         \E s \in Cells(w, h) \ obstacles :
           \E t \in Cells(w, h) \ obstacles :
             /\ grid = NewGrid(w, h, obstacles, s, t)
             /\ grid0 = grid
             /\ start = s
             /\ goal = t
    /\ ps = DefaultState
    /\ algorithm = "None"
    /\ result = NoResult
    /\ came_from_writes = [c \in Cells(w, h) |-> 0]
    /\ marking = NoMarking
    /\ call = NoCall
    /\ app = NoApp
    /\ clicks = 0

Init == InitOn(GridW, GridH, MaxObstacles)

Initialize(a) ==
    /\ algorithm = "None"
    /\ ps' = initialize(a, start, goal)
    /\ algorithm' = a
    /\ UNCHANGED <<grid, grid0, start, goal, result, came_from_writes, marking, call, app, clicks>>

CountIn(seq, p) == Cardinality({i \in 1..Len(seq) : seq[i] = p})

\* one call step(algorithm, goal, grid)
DoStep(a) ==
    \E out \in {step(ps, a, goal, grid)} :
       /\ ps' = out.ps
       /\ grid' = out.grid
       /\ result' = out.result
       /\ came_from_writes' =
            [c \in DOMAIN came_from_writes |-> came_from_writes[c] + CountIn(out.pushed, c)]
       /\ UNCHANGED <<grid0, algorithm, start, goal, marking, call, app, clicks>>

\* the caller's loop: step until a terminal outcome is returned
StepAstar == algorithm = "AStar" /\ result.kind \notin Terminal /\ DoStep("AStar")
StepBfs == algorithm = "Bfs" /\ result.kind \notin Terminal /\ DoStep("Bfs")
StepDfs == algorithm = "Dfs" /\ result.kind \notin Terminal /\ DoStep("Dfs")

Next ==
    \/ \E a \in Algorithms : Initialize(a)
    \/ StepAstar
    \/ StepBfs
    \/ StepDfs

Spec == Init /\ [][Next]_vars

\* a caller that goes on calling step on a terminated instance
StepAfterTerminal == algorithm /= "None" /\ result.kind \in Terminal /\ DoStep(algorithm)

NextResume == Next \/ StepAfterTerminal

SpecResume == Init /\ [][NextResume]_vars

\* A* runs on the wider grid
InitWide == InitOn(WideW, WideH, MaxObstacles)

NextAstar == Initialize("AStar") \/ StepAstar

SpecAstarWide == InitWide /\ [][NextAstar]_vars

\* a state that differs in the iteration order of closed_set only
WithSeed(st, k) == [st EXCEPT !.hash_seed = k]

\* one call step(algorithm, goal, grid) in which closed_set.iter() takes
\* the order number k, any order of the closed positions and the popped one;
\* (every permutation has one number); call records whether it was the
\* listing of SetToSeq
StepHashed ==
    /\ algorithm /= "None"
    /\ result.kind \notin Terminal
    /\ \E k \in 0..(Factorial(Cardinality(ps.closed_set) + 1) - 1) :
      \E out \in {step(WithSeed(ps, k), algorithm, goal, grid)} :
         /\ ps' = WithSeed(out.ps, 0)
         /\ grid' = out.grid
         /\ result' = out.result
         /\ came_from_writes' =
              [c \in DOMAIN came_from_writes |->
                 came_from_writes[c] + CountIn(out.pushed, c)]
         /\ call' = [op |-> "step", listed |-> iter_order(out.ps.closed_set, k)
                                                = SetToSeq(out.ps.closed_set)]
         /\ UNCHANGED <<grid0, algorithm, start, goal, marking, app, clicks>>

NextHashed ==
    \/ \E a \in Algorithms : Initialize(a)
    \/ StepHashed

SpecHashed == InitOn(HashW, HashH, MaxObstacles) /\ [][NextHashed]_vars

\* the corner-to-corner runs on the empty square grid
Corners(n) == {<<0, 0>>, <<n - 1, 0>>, <<0, n - 1>>, <<n - 1, n - 1>>}

InitScenario ==
    /\ \E s \in Corners(ScenarioSize) : \E t \in Corners(ScenarioSize) :
         /\ grid = NewGrid(ScenarioSize, ScenarioSize, {}, s, t)
         /\ grid0 = grid
         /\ start = s
         /\ goal = t
    /\ ps = DefaultState
    /\ algorithm = "None"
    /\ result = NoResult
    /\ came_from_writes = [c \in Cells(ScenarioSize, ScenarioSize) |-> 0]
    /\ marking = NoMarking
    /\ call = NoCall
    /\ app = NoApp
    /\ clicks = 0

SpecScenario == InitScenario /\ [][Next]_vars

\* a caller that calls step with an algorithm other than the one initialize
\* seeded a frontier for (with any algorithm, before initialize)
StepUnseeded(a) == a /= algorithm /\ DoStep(a)

\* the grids free of obstacles
InitOpen == InitOn(GridW, GridH, 0)

NextMisuse == Next \/ \E a \in Algorithms : StepUnseeded(a)

SpecMisuse == InitOpen /\ [][NextMisuse]_vars

\* initialize called again, in any state of a run
Reinitialize(a) ==
    /\ algorithm /= "None"
    /\ ps' = initialize(a, start, goal)
    /\ algorithm' = a
    /\ result' = NoResult
    /\ came_from_writes' = [c \in DOMAIN came_from_writes |-> 0]
    /\ UNCHANGED <<grid, grid0, start, goal, marking, call, app, clicks>>

NextReinit == Next \/ \E a \in Algorithms : Reinitialize(a)

InitReinit == InitOn(ReinitW, ReinitH, MaxObstacles)

SpecReinit == InitReinit /\ [][NextReinit]_vars

\* the marking operations of Grid applied by a caller to a grid of any
\* classification; positions may lie outside of the grid
MarkPositions(w, h) == Cells(w, h) \cup {<<w, 0>>}

RECURSIVE SeqsUpTo(_, _)
SeqsUpTo(S, n) ==
    IF n = 0 THEN {<<>>}
    ELSE UNION {{q} \cup {Append(q, x) : x \in S} : q \in SeqsUpTo(S, n - 1)}

OptionOf(S) == {None} \cup {Some(x) : x \in S}

InitMark ==
    /\ \E cells \in [Cells(MarkW, MarkH) -> CellTypes] :
         grid = [width |-> MarkW, height |-> MarkH, cells |-> cells]
    /\ grid0 = grid
    /\ start = <<0, 0>>
    /\ goal = <<0, 0>>
    /\ ps = DefaultState
    /\ algorithm = "None"
    /\ result = NoResult
    /\ came_from_writes = [c \in Cells(MarkW, MarkH) |-> 0]
    /\ marking = NoMarking
    /\ call = NoCall
    /\ app = NoApp
    /\ clicks = 0

\* one call of a marking operation by a caller, after any other: grid0 is
\* the grid before the call, marking the call and its arguments
MarkFrontier ==
    /\ \E positions \in SeqsUpTo(MarkPositions(MarkW, MarkH), MaxMarked) :
         \E start_pos \in OptionOf(Cells(MarkW, MarkH)) :
           \E goal_pos \in OptionOf(Cells(MarkW, MarkH)) :
             /\ grid' = mark_frontier(grid, positions, start_pos, goal_pos)
             /\ marking' = [op |-> "mark_frontier", positions |-> positions,
                            start_pos |-> start_pos, goal_pos |-> goal_pos]
    /\ grid0' = grid
    /\ UNCHANGED <<ps, algorithm, start, goal, result, came_from_writes, call, app, clicks>>

MarkVisited ==
    /\ \E positions \in SeqsUpTo(MarkPositions(MarkW, MarkH), MaxMarked) :
         \E start_pos \in OptionOf(Cells(MarkW, MarkH)) :
           \E goal_pos \in OptionOf(Cells(MarkW, MarkH)) :
             /\ grid' = mark_visited(grid, positions, start_pos, goal_pos)
             /\ marking' = [op |-> "mark_visited", positions |-> positions,
                            start_pos |-> start_pos, goal_pos |-> goal_pos]
    /\ grid0' = grid
    /\ UNCHANGED <<ps, algorithm, start, goal, result, came_from_writes, call, app, clicks>>

MarkCurrent ==
    /\ \E pos \in MarkPositions(MarkW, MarkH) :
         /\ grid' = mark_current(grid, pos)
         /\ marking' = [op |-> "mark_current", pos |-> pos]
    /\ grid0' = grid
    /\ UNCHANGED <<ps, algorithm, start, goal, result, came_from_writes, call, app, clicks>>

MarkPreviousNodeAsVisited ==
    /\ \E position \in MarkPositions(MarkW, MarkH) :
         /\ grid' = mark_previous_node_as_visited(grid, position)
         /\ marking' = [op |-> "mark_previous_node_as_visited", pos |-> position]
    /\ grid0' = grid
    /\ UNCHANGED <<ps, algorithm, start, goal, result, came_from_writes, call, app, clicks>>

MarkPath ==
    /\ \E path \in SeqsUpTo(MarkPositions(MarkW, MarkH), MaxMarked) :
         \E start_pos \in OptionOf(Cells(MarkW, MarkH)) :
           \E goal_pos \in OptionOf(Cells(MarkW, MarkH)) :
             /\ grid' = mark_path(grid, path, start_pos, goal_pos)
             /\ marking' = [op |-> "mark_path", positions |-> path,
                            start_pos |-> start_pos, goal_pos |-> goal_pos]
    /\ grid0' = grid
    /\ UNCHANGED <<ps, algorithm, start, goal, result, came_from_writes, call, app, clicks>>

ClearPathfindingCells ==
    /\ grid' = clear_pathfinding_cells(grid)
    /\ marking' = [op |-> "clear_pathfinding_cells"]
    /\ grid0' = grid
    /\ UNCHANGED <<ps, algorithm, start, goal, result, came_from_writes, call, app, clicks>>

SetCell ==
    /\ \E pos \in MarkPositions(MarkW, MarkH) :
         \E cell_type \in CellTypes :
           /\ grid' = set_cell(grid, pos, cell_type)
           /\ marking' = [op |-> "set_cell", pos |-> pos, cell_type |-> cell_type]
    /\ grid0' = grid
    /\ UNCHANGED <<ps, algorithm, start, goal, result, came_from_writes, call, app, clicks>>

NextMark ==
    \/ MarkFrontier
    \/ MarkVisited
    \/ MarkCurrent
    \/ MarkPreviousNodeAsVisited
    \/ MarkPath
    \/ ClearPathfindingCells
    \/ SetCell

SpecMark == InitMark /\ [][NextMark]_vars

\* ---------------------------------------------------------------- Node
\* the functions of Node applied to nodes of any costs, at the same or at
\* different positions
NodePositions == {<<0, 0>>, <<1, 0>>}

Nodes ==
    {NodeNew(p, g, h) : p \in NodePositions, g \in 0..MaxCost, h \in 0..MaxCost}

InitNode ==
    /\ \E a \in Nodes : \E b \in Nodes : call = [op |-> "new", a |-> a, b |-> b]
    /\ grid = NewGrid(1, 1, {}, <<0, 0>>, <<0, 0>>)
    /\ grid0 = grid
    /\ start = <<0, 0>>
    /\ goal = <<0, 0>>
    /\ ps = DefaultState
    /\ algorithm = "None"
    /\ result = NoResult
    /\ came_from_writes = [c \in Cells(1, 1) |-> 0]
    /\ marking = NoMarking
    /\ app = NoApp
    /\ clicks = 0

Returned(op, out) == [op |-> op, a |-> call.a, b |-> call.b, out |-> out]

CallFrame == UNCHANGED <<ps, grid, grid0, algorithm, start, goal, result,
                        came_from_writes, marking, app, clicks>>

\* a.cmp(&b)
Cmp == call.op = "new" /\ call' = Returned("cmp", NodeCmp(call.a, call.b)) /\ CallFrame

\* a == b
Eq == call.op = "new" /\ call' = Returned("eq", NodeEq(call.a, call.b)) /\ CallFrame

\* a.f_cost()
FCost == call.op = "new" /\ call' = Returned("f_cost", f_cost(call.a)) /\ CallFrame

\* the same, on the Node of src/app/node.rs
AppCmp ==
    call.op = "new" /\ call' = Returned("app_cmp", AppNodeCmp(call.a, call.b)) /\ CallFrame

AppEq ==
    call.op = "new" /\ call' = Returned("app_eq", AppNodeEq(call.a, call.b)) /\ CallFrame

NextNode == Cmp \/ Eq \/ FCost \/ AppCmp \/ AppEq

SpecNode == InitNode /\ [][NextNode]_vars

\* ------------------------------------------------- Grid as neighbor oracle
\* the queries of Grid on a grid of any classification, at the positions of
\* the grid and of the ring around it
OracleCellTypes == {"Empty", "Obstacle", "Visited"}

OraclePositions == ((-1)..OracleW) \X ((-1)..OracleH)

InitOracle ==
    /\ \E cells \in [Cells(OracleW, OracleH) -> OracleCellTypes] :
         grid = [width |-> OracleW, height |-> OracleH, cells |-> cells]
    /\ \E pos \in OraclePositions : call = [op |-> "new", pos |-> pos]
    /\ grid0 = grid
    /\ start = <<0, 0>>
    /\ goal = <<0, 0>>
    /\ ps = DefaultState
    /\ algorithm = "None"
    /\ result = NoResult
    /\ came_from_writes = [c \in Cells(OracleW, OracleH) |-> 0]
    /\ marking = NoMarking
    /\ app = NoApp
    /\ clicks = 0

\* grid.is_walkable(&pos)
IsWalkable ==
    /\ call.op = "new"
    /\ call' = [op |-> "is_walkable", pos |-> call.pos,
                out |-> is_walkable(grid, call.pos)]
    /\ CallFrame

\* grid.get_walkable_neighbors(&pos)
GetWalkableNeighbors ==
    /\ call.op = "new"
    /\ call' = [op |-> "get_walkable_neighbors", pos |-> call.pos,
                out |-> get_walkable_neighbors(grid, call.pos)]
    /\ CallFrame

NextOracle == IsWalkable \/ GetWalkableNeighbors

SpecOracle == InitOracle /\ [][NextOracle]_vars

\* ------------------------------------------------- reference definitions
WalkableCells(g) == {c \in DOMAIN g.cells : g.cells[c] /= "Obstacle"}

Adjacent(a, b) == manhattan_distance_to(a, b) = 1

\* the distance from the cells of layer d to t in the four-connected
\* walkability graph, by whole layers; -1 when t cannot be reached
RECURSIVE LayerDistance(_, _, _, _, _)
LayerDistance(g, layer, seen, t, d) ==
    IF t \in layer THEN d
    ELSE IF layer = {} THEN -1
    ELSE LET next == {c \in WalkableCells(g) \ seen : \E f \in layer : Adjacent(c, f)}
         IN LayerDistance(g, next, seen \cup next, t, d + 1)

ShortestDistance(g, s, t) == LayerDistance(g, {s}, {s}, t, 0)

\* the cells that can be reached from the cells of layer
RECURSIVE Reach(_, _, _)
Reach(g, seen, layer) ==
    IF layer = {} THEN seen
    ELSE Reach(g, seen \cup layer,
               {c \in WalkableCells(g) \ (seen \cup layer) : \E f \in layer : Adjacent(c, f)})

\* the connected component of s in the four-connected walkability graph
Component(g, s) == Reach(g, {}, {s})

\* the outcome of the caller's loop: step until PathFound or NoPath
RECURSIVE RunFrom(_, _, _)
RunFrom(out, a, goal_) ==
    IF out.result.kind \in Terminal THEN out.result
    ELSE RunFrom(step(out.ps, a, goal_, out.grid), a, goal_)

Run(a, s, t, g) == RunFrom(StepOut(initialize(a, s, t), g, NoResult, <<>>), a, t)

\* ---------------------------------------------------------------- properties

\* C1: when the goal is reachable, the BFS run ends with PathFound and the
\* number of edges of its path is the shortest-path distance from start to
\* goal in the four-connected walkability graph.
BfsOptimal ==
    (algorithm = "Bfs" /\ result.kind \in Terminal
        /\ ShortestDistance(grid0, start, goal) >= 0)
    => (result.kind = "PathFound"
        /\ Len(result.path) - 1 = ShortestDistance(grid0, start, goal))

\* a BFS run that found a path longer than the Manhattan distance (a detour)
BfsOptimalWitness ==
    /\ algorithm = "Bfs"
    /\ result.kind = "PathFound"
    /\ Len(result.path) - 1 > manhattan_distance_to(start, goal)
    /\ Len(result.path) - 1 = ShortestDistance(grid0, start, goal)

\* C2: the A* run returns a path of the same length as the BFS run on the
\* same grid, start and goal, and NoPath exactly when the BFS run does.
AstarMatchesBfs ==
    (algorithm = "AStar" /\ result.kind \in Terminal)
    => \E bfs \in {Run("Bfs", start, goal, grid0)} :
         /\ result.kind = bfs.kind
         /\ Len(result.path) = Len(bfs.path)

\* an A* run that found a path with a detour
AstarMatchesBfsWitness ==
    /\ algorithm = "AStar"
    /\ result.kind = "PathFound"
    /\ Len(result.path) - 1 > manhattan_distance_to(start, goal)
    /\ Len(result.path) = Len(Run("Bfs", start, goal, grid0).path)

\* C3: in a returned path consecutive positions are four-connected adjacent
\* and every position is in bounds and not an obstacle.
PathValid ==
    result.kind = "PathFound"
    => /\ \A i \in 1..(Len(result.path) - 1) : Adjacent(result.path[i], result.path[i + 1])
       /\ \A i \in 1..Len(result.path) :
            /\ is_valid_position(grid0, result.path[i])
            /\ get_cell(grid0, result.path[i]) /= "Obstacle"

\* a returned path that turns a corner next to an obstacle
PathValidWitness ==
    /\ result.kind = "PathFound"
    /\ Len(result.path) >= 4
    /\ \E i \in 1..Len(result.path) : \E c \in DOMAIN grid0.cells :
         grid0.cells[c] = "Obstacle" /\ Adjacent(c, result.path[i])
    /\ \A i \in 1..(Len(result.path) - 1) : Adjacent(result.path[i], result.path[i + 1])

\* C4: a returned path has at least one element, begins with start, ends
\* with goal, and has exactly one element iff start = goal.
PathEndpoints ==
    result.kind = "PathFound"
    => /\ Len(result.path) >= 1
       /\ result.path[1] = start
       /\ result.path[Len(result.path)] = goal
       /\ (Len(result.path) = 1 <=> start = goal)

\* a returned path of several positions from start to goal
PathEndpointsWitness ==
    /\ result.kind = "PathFound"
    /\ Len(result.path) >= 3
    /\ result.path[1] = start
    /\ result.path[Len(result.path)] = goal

\* C5: when a terminal outcome is returned, the number of steps taken is at
\* most the number of walkable cells of the grid.
StepsWithinWalkable ==
    result.kind \in Terminal => ps.step_count <= Cardinality(WalkableCells(grid0))

\* C6: a step call after PathFound does not resume the search: it leaves
\* closed_set, came_from, step_count, current_node and the frontiers as
\* they are.
NoResumeAfterPathFound ==
    [][result.kind = "PathFound"
       => /\ ps'.closed_set = ps.closed_set
          /\ ps'.came_from = ps.came_from
          /\ ps'.step_count = ps.step_count
          /\ ps'.current_node = ps.current_node
          /\ ps'.open_set = ps.open_set
          /\ ps'.bfs_queue = ps.bfs_queue
          /\ ps'.dfs_stack = ps.dfs_stack]_vars

\* C7: the closed_set after a step is a superset of the closed_set before.
ClosedSetMonotone == [][ps.closed_set \subseteq ps'.closed_set]_vars

\* a run that has closed several positions and goes on
ClosedSetMonotoneWitness ==
    result.kind = "Continue" /\ Cardinality(ps.closed_set) >= 4

\* the number of entries for p in the three frontiers
FrontierCount(st, p) ==
    Cardinality({i \in 1..Len(st.open_set) : st.open_set[i].position = p})
    + CountIn(st.bfs_queue, p) + CountIn(st.dfs_stack, p)

\* C8: a position that is in closed_set is not pushed or enqueued into any
\* frontier by a later step.
ClosedNeverPushed ==
    [][\A p \in ps.closed_set :
          /\ FrontierCount(ps', p) <= FrontierCount(ps, p)
          /\ came_from_writes'[p] = came_from_writes[p]]_vars

\* a step that met a closed walkable neighbor and admitted another one
ClosedNeverPushedWitness ==
    /\ result.kind = "Continue"
    /\ ps.current_node /= None
    /\ \E i \in 1..4 :
         LET n == neighbors(ps.current_node[1])[i]
         IN is_walkable(grid, n) /\ n \in ps.closed_set /\ FrontierCount(ps, n) = 0
    /\ \E i \in 1..Len(ps.last_neighbors) :
         ps.last_neighbors[i].decision \in {"push", "enqueue"}

\* C9: in a BFS run and in a DFS run came_from is written at most once for
\* every position (which is then pushed once), and an entry that is set is
\* never overwritten.
FirstDiscoveryBfsDfs ==
    [][algorithm' \in {"Bfs", "Dfs"}
       => /\ \A c \in DOMAIN came_from_writes' : came_from_writes'[c] <= 1
          /\ \A p \in DOMAIN ps.came_from :
               p \in DOMAIN ps'.came_from /\ ps'.came_from[p] = ps.came_from[p]]_vars

\* a BFS or DFS step that met a neighbor already discovered and still in the
\* frontier, and left its came_from entry alone
FirstDiscoveryBfsDfsWitness ==
    /\ algorithm \in {"Bfs", "Dfs"}
    /\ \E i \in 1..Len(ps.last_neighbors) :
         /\ ps.last_neighbors[i].decision = "skip: already seen"
         /\ ps.last_neighbors[i].pos \notin ps.closed_set
         /\ ps.last_neighbors[i].pos \in DOMAIN ps.came_from
         /\ ps.came_from[ps.last_neighbors[i].pos] /= ps.current_node[1]

\* C10 as stated: in an A* run came_from is written at most once for every
\* position.
AstarCameFromOnce ==
    algorithm = "AStar" => \A c \in DOMAIN came_from_writes : came_from_writes[c] <= 1

\* C10 as amended: in an A* run a step writes came_from[p] again only for a
\* position p that is not in closed_set, and then with a g_cost strictly
\* lower than the one recorded before.
AstarCameFromRewrite ==
    [][algorithm = "AStar"
       => \A p \in DOMAIN ps.came_from :
            came_from_writes'[p] > came_from_writes[p]
            => /\ p \notin ps'.closed_set
               /\ came_from_writes'[p] = came_from_writes[p] + 1
               /\ ps'.g_costs[p] < ps.g_costs[p]]_vars

\* an A* run in which a position was admitted a second time
AstarCameFromRewriteWitness ==
    /\ algorithm = "AStar"
    /\ \E c \in DOMAIN came_from_writes : came_from_writes[c] >= 2

\* C11: start is never a key of came_from, and every other position is a
\* key of came_from exactly when it was pushed or enqueued at least once;
\* its one parent is then a cell next to it.
CameFromKeys ==
    algorithm /= "None"
    => /\ start \notin DOMAIN ps.came_from
       /\ came_from_writes[start] = 0
       /\ \A c \in DOMAIN came_from_writes \ {start} :
            came_from_writes[c] >= 1 <=> c \in DOMAIN ps.came_from
       /\ \A c \in DOMAIN ps.came_from :
            ps.came_from[c] \in DOMAIN grid.cells /\ Adjacent(c, ps.came_from[c])

\* a run that expanded a neighbor of start (which met start again) and has
\* discovered several positions
CameFromKeysWitness ==
    /\ algorithm /= "None"
    /\ ps.current_node /= None
    /\ Adjacent(ps.current_node[1], start)
    /\ result.kind = "Continue"
    /\ Cardinality(DOMAIN ps.came_from) >= 3
    /\ start \notin DOMAIN ps.came_from

\* (f_cost, h_cost) compared lexicographically
LexLe(f1, h1, f2, h2) == f1 < f2 \/ (f1 = f2 /\ h1 <= h2)

\* C12: the entry an A* step pops has the lexicographically smallest
\* (f_cost, h_cost) of all entries that were in open_set, and no entry for
\* the popped position that stays in open_set has a lower f_cost.
AstarPopsMinimum ==
    [][(algorithm = "AStar" /\ ps'.step_count = ps.step_count + 1)
       => /\ \E i \in 1..Len(ps.open_set) :
               /\ ps.open_set[i].position = ps'.last_step_info.pos
               /\ ps.open_set[i].g_cost = ps'.last_step_info.g
               /\ ps.open_set[i].h_cost = ps'.last_step_info.h
          /\ ps'.last_step_info.f = ps'.last_step_info.g + ps'.last_step_info.h
          /\ \A i \in 1..Len(ps.open_set) :
               LexLe(ps'.last_step_info.f, ps'.last_step_info.h,
                     f_cost(ps.open_set[i]), ps.open_set[i].h_cost)
          /\ \A i \in 1..Len(ps'.open_set) :
               ps'.open_set[i].position = ps'.last_step_info.pos
               => f_cost(ps'.open_set[i]) >= ps'.last_step_info.f]_vars

\* an A* step that popped an entry for a position of which another entry
\* stays in open_set, next to entries of other positions
AstarPopsMinimumWitness ==
    /\ algorithm = "AStar"
    /\ ps.last_step_info.kind = "pop"
    /\ \E i \in 1..Len(ps.open_set) : ps.open_set[i].position = ps.last_step_info.pos
    /\ \E i \in 1..Len(ps.open_set) : ps.open_set[i].position /= ps.last_step_info.pos

\* C13: a cell classified Start or Goal before the run is classified Start
\* or Goal after every step.
StartGoalKept ==
    \A c \in DOMAIN grid0.cells :
        grid0.cells[c] \in {"Start", "Goal"} => grid.cells[c] \in {"Start", "Goal"}

\* C19: a step from the same state returns the same StepResult and leaves
\* the same PathfindingState and the same Grid under every iteration order
\* of closed_set (each order is a transition of its own, and all of them
\* end where the step under the first order ends), so that two runs on the
\* same inputs go through the same outcomes; the entries of open_set that
\* tie are popped in one fixed order.
StepDeterministic ==
    [][(algorithm /= "None" /\ algorithm' = algorithm)
       => \E out \in {step(ps, algorithm, goal, grid)} :
             /\ out.result = result'
             /\ out.grid = grid'
             /\ out.ps = ps']_vars

\* an A* step in which closed_set was iterated in another order than the
\* listing of SetToSeq, with several closed positions and two entries of
\* open_set that tie on f_cost and h_cost
StepDeterministicWitness ==
    /\ algorithm = "AStar"
    /\ call.op = "step"
    /\ ~call.listed
    /\ result.kind = "Continue"
    /\ Cardinality(ps.closed_set) >= 2
    /\ \E i, j \in 1..Len(ps.open_set) :
         /\ i < j
         /\ ps.open_set[i].position /= ps.open_set[j].position
         /\ f_cost(ps.open_set[i]) = f_cost(ps.open_set[j])
         /\ ps.open_set[i].h_cost = ps.open_set[j].h_cost

\* the cells that a marking operation changed
Changed(g, h) == {c \in DOMAIN g.cells : h.cells[c] /= g.cells[c]}

\* C14: mark_frontier changes only cells classified Empty, to Frontier;
\* mark_visited changes only cells classified Empty or Frontier, to Visited;
\* applying either a second time changes nothing.
MarkingFrame ==
    [][/\ marking'.op = "mark_frontier"
          => /\ \A c \in Changed(grid, grid') :
                  grid.cells[c] = "Empty" /\ grid'.cells[c] = "Frontier"
             /\ mark_frontier(grid', marking'.positions, marking'.start_pos,
                              marking'.goal_pos) = grid'
       /\ marking'.op = "mark_visited"
          => /\ \A c \in Changed(grid, grid') :
                  grid.cells[c] \in {"Empty", "Frontier"} /\ grid'.cells[c] = "Visited"
             /\ mark_visited(grid', marking'.positions, marking'.start_pos,
                             marking'.goal_pos) = grid']_vars

\* mark_visited applied to a Frontier cell and a Current cell: the first is
\* Visited now, the second is still Current
MarkingFrameWitness ==
    /\ marking.op = "mark_visited"
    /\ Len(marking.positions) = 2
    /\ \A i \in 1..2 : marking.positions[i] \in DOMAIN grid0.cells
    /\ grid0.cells[marking.positions[1]] = "Frontier"
    /\ grid.cells[marking.positions[1]] = "Visited"
    /\ grid0.cells[marking.positions[2]] = "Current"
    /\ grid.cells[marking.positions[2]] = "Current"

\* the run from the corner (0,0) to the opposite corner
CornerToCorner ==
    start = <<0, 0>> /\ goal = <<ScenarioSize - 1, ScenarioSize - 1>>

\* C15: on the empty square grid, from (0,0) to the opposite corner, the
\* BFS run and the A* run each end with PathFound and a path of
\* 2 * ScenarioSize - 1 positions, after no more steps than the grid has
\* cells.
ScenarioShortest ==
    (CornerToCorner /\ algorithm \in {"Bfs", "AStar"})
    => /\ ps.step_count <= ScenarioSize * ScenarioSize
       /\ ps.step_count = ScenarioSize * ScenarioSize => result.kind \in Terminal
       /\ result.kind \in Terminal
          => /\ result.kind = "PathFound"
             /\ Len(result.path) = 2 * ScenarioSize - 1

\* the A* run of the scenario has returned its path
ScenarioShortestWitness ==
    /\ CornerToCorner
    /\ algorithm = "AStar"
    /\ result.kind = "PathFound"
    /\ Len(result.path) = 2 * ScenarioSize - 1
    /\ grid0.width = ScenarioSize /\ grid0.height = ScenarioSize

\* the walk east along the first row, then south along the last column
EastThenSouth ==
    [i \in 1..(2 * ScenarioSize - 1) |->
        IF i <= ScenarioSize THEN <<i - 1, 0>> ELSE <<ScenarioSize - 1, i - ScenarioSize>>]

\* C16: on the empty square grid, from (0,0) to the opposite corner, the
\* DFS run ends with PathFound and its path is the walk east along the
\* first row, then south along the last column.
ScenarioDfsWalk ==
    CornerToCorner
    => \E run \in {Run("Dfs", start, goal, grid0)} :
         /\ run = PathFound(EastThenSouth)
         /\ (algorithm = "Dfs" /\ result.kind \in Terminal) => result = run

\* the DFS run of the scenario has returned its path
ScenarioDfsWalkWitness ==
    /\ CornerToCorner
    /\ algorithm = "Dfs"
    /\ result.kind = "PathFound"
    /\ result.path[ScenarioSize] = <<ScenarioSize - 1, 0>>
    /\ grid0.width = ScenarioSize /\ grid0.height = ScenarioSize

\* C17: when start equals goal, the first step returns PathFound with the
\* path of that one position; step_count is 1, closed_set holds that
\* position alone and came_from is empty.
StartIsGoal ==
    (start = goal /\ algorithm /= "None")
    => /\ ps.step_count <= 1
       /\ ps.step_count = 1
          => /\ result = PathFound(<<start>>)
             /\ ps.closed_set = {start}
             /\ ps.came_from = EmptyMap
             /\ ps.current_node = Some(start)
       /\ Run(algorithm, start, goal, grid0) = PathFound(<<start>>)

\* the first step of a run with start = goal, on a position that has a
\* walkable neighbor
StartIsGoalWitness ==
    /\ start = goal
    /\ algorithm = "Bfs"
    /\ ps.step_count = 1
    /\ result.kind = "PathFound"
    /\ get_walkable_neighbors(grid0, start) /= <<>>

\* C18: when goal cannot be reached from start, no step returns PathFound,
\* the run ends with NoPath, and closed_set is then the connected component
\* of start.
UnreachableGoal ==
    (goal \notin Component(grid0, start) /\ algorithm /= "None")
    => /\ result.kind /= "PathFound"
       /\ result.kind = "NoPath" => ps.closed_set = Component(grid0, start)
       /\ ps.closed_set \subseteq Component(grid0, start)
       /\ Run(algorithm, start, goal, grid0) = NoPath

\* a run that ended with NoPath after it closed several positions
UnreachableGoalWitness ==
    /\ goal \notin Component(grid0, start)
    /\ result.kind = "NoPath"
    /\ Cardinality(ps.closed_set) >= 4
    /\ ps.closed_set = Component(grid0, start)

\* the fields of the PathfindingState that a search reads
SearchFields(st) ==
    <<st.open_set, st.bfs_queue, st.dfs_stack, st.closed_set, st.came_from,
      st.g_costs, st.h_costs, st.f_costs, st.current_node, st.step_count>>

\* C20: in every state, a step call with an algorithm for which initialize
\* seeded no frontier returns NoPath, leaves closed_set, came_from, the cost
\* maps, step_count, current_node and the frontiers as they are, and leaves
\* the Grid as it is.
UnseededStepInert ==
    \A a \in Algorithms \ {algorithm} :
        \E out \in {step(ps, a, goal, grid)} :
           /\ out.result = NoPath
           /\ SearchFields(out.ps) = SearchFields(ps)
           /\ out.grid = grid
           /\ out.pushed = <<>>

\* a DFS step called in the middle of a BFS run
UnseededStepInertWitness ==
    /\ algorithm = "Bfs"
    /\ ps.last_step_info.kind = "Stack empty"
    /\ result.kind = "NoPath"
    /\ ps.step_count >= 2
    /\ ps.bfs_queue /= <<>>

\* a map that holds the one key k, with value v
OnlyEntry(map, k, v) == DOMAIN map = {k} /\ map[k] = v

\* C21: after initialize(algorithm, start, goal), whatever the state it was
\* called in, closed_set and came_from are empty, step_count is 0,
\* current_node and previous_node are unset, last_step_info and
\* last_neighbors are empty, the frontier of the chosen algorithm holds start
\* alone and the two other frontiers are empty, g_costs holds start with 0,
\* and for A* h_costs and f_costs hold start with the Manhattan distance from
\* start to goal.
InitializeResets ==
    (algorithm /= "None" /\ ps.step_count = 0)
    => /\ ps.closed_set = {}
       /\ ps.came_from = EmptyMap
       /\ ps.current_node = None
       /\ ps.previous_node = None
       /\ ps.last_step_info = [kind |-> "empty"]
       /\ ps.last_neighbors = <<>>
       /\ OnlyEntry(ps.g_costs, start, 0)
       /\ algorithm = "AStar"
          => /\ ps.open_set = <<[position |-> start, g_cost |-> 0,
                                 h_cost |-> Abs(start[1] - goal[1])
                                            + Abs(start[2] - goal[2])]>>
             /\ ps.bfs_queue = <<>> /\ ps.dfs_stack = <<>>
             /\ OnlyEntry(ps.h_costs, start,
                          Abs(start[1] - goal[1]) + Abs(start[2] - goal[2]))
             /\ OnlyEntry(ps.f_costs, start,
                          Abs(start[1] - goal[1]) + Abs(start[2] - goal[2]))
       /\ algorithm = "Bfs"
          => /\ ps.bfs_queue = <<start>>
             /\ ps.open_set = <<>> /\ ps.dfs_stack = <<>>
       /\ algorithm = "Dfs"
          => /\ ps.dfs_stack = <<start>>
             /\ ps.open_set = <<>> /\ ps.bfs_queue = <<>>

\* A* initialised again in the middle of a run that had already marked
\* cells of the Grid, with start at a distance from goal
InitializeResetsWitness ==
    /\ algorithm = "AStar"
    /\ ps.step_count = 0
    /\ grid /= grid0
    /\ result = NoResult
    /\ start /= goal
    /\ ps.open_set /= <<>>

\* C22: a.cmp(b) is Greater exactly when f_cost(a) < f_cost(b), or the
\* f_costs are equal and h_cost(a) < h_cost(b); it is Equal exactly when a
\* and b have the same f_cost and the same h_cost.  Both implementations of
\* Ord for Node.
NodePriorityOrder ==
    call.op \in {"cmp", "app_cmp"}
    => /\ call.out = "Greater"
          <=> \/ call.a.g_cost + call.a.h_cost < call.b.g_cost + call.b.h_cost
              \/ /\ call.a.g_cost + call.a.h_cost = call.b.g_cost + call.b.h_cost
                 /\ call.a.h_cost < call.b.h_cost
       /\ call.out = "Equal"
          <=> /\ call.a.g_cost + call.a.h_cost = call.b.g_cost + call.b.h_cost
              /\ call.a.h_cost = call.b.h_cost

\* two nodes of the same f_cost at different positions, told apart by h_cost
NodePriorityOrderWitness ==
    /\ call.op = "cmp"
    /\ call.a.position /= call.b.position
    /\ call.a.g_cost + call.a.h_cost = call.b.g_cost + call.b.h_cost
    /\ call.a.h_cost < call.b.h_cost
    /\ call.out = "Greater"

\* C23: two nodes of the engine are equal (==) exactly when their positions
\* are equal, whatever their costs.
NodeEqByPosition ==
    call.op = "eq" => (call.out <=> call.a.position = call.b.position)

\* C24: f_cost() returns g_cost + h_cost, and a node stores no more than
\* position, g_cost and h_cost.
FCostIsSum ==
    call.op = "f_cost"
    => /\ call.out = call.a.g_cost + call.a.h_cost
       /\ DOMAIN call.a = {"position", "g_cost", "h_cost"}

\* f_cost of a node with both costs positive
FCostIsSumWitness ==
    /\ call.op = "f_cost"
    /\ call.a.g_cost > 0
    /\ call.a.h_cost > 0
    /\ call.out = call.a.g_cost + call.a.h_cost

\* pos is inside of the grid and its cell is not an obstacle
Walkable(g, pos) ==
    /\ pos \in Cells(g.width, g.height)
    /\ g.cells[pos] /= "Obstacle"

\* the place of n among the four-connected neighbors of pos: 1 north (y-1),
\* 2 east (x+1), 3 south (y+1), 4 west (x-1); 0 for any other position
Direction(pos, n) ==
    CASE n[1] = pos[1] /\ n[2] = pos[2] - 1 -> 1
      [] n[1] = pos[1] + 1 /\ n[2] = pos[2] -> 2
      [] n[1] = pos[1] /\ n[2] = pos[2] + 1 -> 3
      [] n[1] = pos[1] - 1 /\ n[2] = pos[2] -> 4
      [] OTHER -> 0

\* C25: is_walkable(pos) is true exactly when pos is inside of the grid and
\* its cell is not Obstacle; get_walkable_neighbors(pos) returns the walkable
\* positions among the four-connected neighbors of pos, none else, each
\* once, in the order north, east, south, west.
NeighborOracle ==
    /\ call.op = "is_walkable" => (call.out <=> Walkable(grid, call.pos))
    /\ call.op = "get_walkable_neighbors"
       => /\ \A i \in 1..Len(call.out) :
               /\ Direction(call.pos, call.out[i]) \in 1..4
               /\ Walkable(grid, call.out[i])
          /\ \A i \in 1..Len(call.out) : \A j \in 1..Len(call.out) :
               i < j => Direction(call.pos, call.out[i]) < Direction(call.pos, call.out[j])
          /\ \A n \in OraclePositions \cup {<<call.pos[1] + dx, call.pos[2] + dy>> :
                                               dx \in (-1)..1, dy \in (-1)..1} :
               (Direction(call.pos, n) \in 1..4 /\ Walkable(grid, n))
               => \E i \in 1..Len(call.out) : call.out[i] = n

\* a position of the grid with a walkable neighbor to the north, another to
\* the west and the two other neighbors outside of the grid
NeighborOracleWitness ==
    /\ call.op = "get_walkable_neighbors"
    /\ call.pos = <<OracleW - 1, OracleH - 1>>
    /\ Len(call.out) = 2
    /\ Direction(call.pos, call.out[1]) = 1
    /\ Direction(call.pos, call.out[2]) = 4

\* the frontier of the algorithm of the run
Frontier(st, a) ==
    CASE a = "AStar" -> st.open_set
      [] a = "Bfs" -> st.bfs_queue
      [] a = "Dfs" -> st.dfs_stack

\* C26: once step has returned NoPath, the frontier is empty and a further
\* step call with the same algorithm returns NoPath again and leaves
\* closed_set, came_from, the cost maps, step_count, current_node, the
\* frontiers and the Grid as they are; it writes the diagnostic text only.
NoPathAbsorbing ==
    result.kind = "NoPath"
    => /\ Frontier(ps, algorithm) = <<>>
       /\ \E out \in {step(ps, algorithm, goal, grid)} :
            /\ out.result = NoPath
            /\ SearchFields(out.ps) = SearchFields(ps)
            /\ out.grid = grid
            /\ out.pushed = <<>>
            /\ out.ps = [ps EXCEPT !.last_step_info = out.ps.last_step_info]
            /\ out.ps.last_step_info.kind
                 \in {"Open set empty", "Queue empty", "Stack empty"}

\* a DFS run that ended with NoPath after it closed several positions
NoPathAbsorbingWitness ==
    /\ algorithm = "Dfs"
    /\ result.kind = "NoPath"
    /\ ps.dfs_stack = <<>>
    /\ ps.step_count >= 3
    /\ Cardinality(ps.closed_set) >= 3
    /\ ps.last_step_info.kind = "Stack empty"

\* HashMap::get
MapGet(map, k) == IF k \in DOMAIN map THEN Some(map[k]) ELSE None

\* the entries of open_set for position n, as the bag of their g_costs
EntriesFor(open_set, n) ==
    [gc \in {open_set[i].g_cost : i \in {j \in 1..Len(open_set) : open_set[j].position = n}}
       |-> Cardinality({i \in 1..Len(open_set) :
                          open_set[i].position = n /\ open_set[i].g_cost = gc})]

\* an A* step that popped an entry and expanded it
AstarExpansion ==
    /\ algorithm = "AStar"
    /\ algorithm' = "AStar"
    /\ ps'.step_count = ps.step_count + 1
    /\ ps'.last_step_info.pos /= goal

\* C27: when an A* step expands a popped entry of cost g, a walkable
\* neighbor n outside of closed_set is pushed, with g + 1, exactly when no
\* entry for n in open_set has g_cost <= g + 1; a neighbor that is not
\* pushed keeps its came_from entry, its costs and its entries of open_set.
AstarAdmission ==
    [][AstarExpansion
       => \A n \in WalkableCells(grid0) \ ps'.closed_set :
            Adjacent(n, ps'.last_step_info.pos)
            => /\ came_from_writes'[n] = came_from_writes[n] + 1
                  <=> ~\E i \in 1..Len(ps.open_set) :
                         /\ ps.open_set[i].position = n
                         /\ ps.open_set[i].g_cost <= ps'.last_step_info.g + 1
               /\ came_from_writes'[n] = came_from_writes[n] + 1
                  => /\ ps'.came_from[n] = ps'.last_step_info.pos
                     /\ ps'.g_costs[n] = ps'.last_step_info.g + 1
                     /\ EntriesFor(ps'.open_set, n)
                          = EntriesFor(heap_push(ps.open_set,
                                         NodeNew(n, ps'.last_step_info.g + 1,
                                                 Abs(n[1] - goal[1]) + Abs(n[2] - goal[2]))),
                                       n)
               /\ came_from_writes'[n] /= came_from_writes[n] + 1
                  => /\ came_from_writes'[n] = came_from_writes[n]
                     /\ MapGet(ps'.came_from, n) = MapGet(ps.came_from, n)
                     /\ MapGet(ps'.g_costs, n) = MapGet(ps.g_costs, n)
                     /\ MapGet(ps'.h_costs, n) = MapGet(ps.h_costs, n)
                     /\ MapGet(ps'.f_costs, n) = MapGet(ps.f_costs, n)
                     /\ EntriesFor(ps'.open_set, n) = EntriesFor(ps.open_set, n)]_vars

\* after an A* step that pushed one neighbor and rejected another on a tie:
\* open_set holds an entry for the rejected neighbor with exactly the g_cost
\* that was offered
AstarAdmissionWitness ==
    /\ algorithm = "AStar"
    /\ result.kind = "Continue"
    /\ \E i \in 1..Len(ps.last_neighbors) : ps.last_neighbors[i].decision = "push"
    /\ \E i \in 1..Len(ps.last_neighbors) :
         /\ ps.last_neighbors[i].decision /= "push"
         /\ \E j \in 1..Len(ps.open_set) :
              /\ ps.open_set[j].position = ps.last_neighbors[i].pos
              /\ ps.open_set[j].g_cost = ps.last_neighbors[i].g[1]
         /\ \A j \in 1..Len(ps.open_set) :
              ps.open_set[j].position = ps.last_neighbors[i].pos
              => ps.open_set[j].g_cost >= ps.last_neighbors[i].g[1]

\* an A* step that popped an entry whose position was in closed_set already
AstarStalePop ==
    /\ algorithm = "AStar"
    /\ algorithm' = "AStar"
    /\ ps'.step_count = ps.step_count + 1
    /\ ps'.last_step_info.pos \in ps.closed_set

\* C28: an A* step that pops an entry whose position is in closed_set
\* already admits no neighbor and pushes nothing: open_set loses the popped
\* entry and nothing else changes in it, and came_from, the cost maps and
\* closed_set stay as they are.
AstarStalePopInert ==
    [][AstarStalePop
       => /\ came_from_writes' = came_from_writes
          /\ \A i \in 1..Len(ps'.last_neighbors) :
               ps'.last_neighbors[i].decision /= "push"
          /\ ps'.open_set = heap_pop(ps.open_set).data
          /\ Len(ps'.open_set) = Len(ps.open_set) - 1
          /\ ps'.came_from = ps.came_from
          /\ ps'.g_costs = ps.g_costs
          /\ ps'.h_costs = ps.h_costs
          /\ ps'.f_costs = ps.f_costs
          /\ ps'.closed_set = ps.closed_set]_vars

\* after the pop of a stale entry that had an open neighbor to consider
AstarStalePopInertWitness ==
    /\ algorithm = "AStar"
    /\ result.kind = "Continue"
    /\ ps.step_count > Cardinality(ps.closed_set)
    /\ ps.last_step_info.kind = "pop"
    /\ ps.last_step_info.g > ps.g_costs[ps.last_step_info.pos]
    /\ ps.last_neighbors /= <<>>

\* the sum of the values of a map over the keys in S
RECURSIVE Total(_, _)
Total(map, S) ==
    IF S = {} THEN 0
    ELSE Total(map, S \ {CHOOSE c \in S : TRUE}) + map[CHOOSE c \in S : TRUE]

\* the number of pushes into the frontier since initialize, start included
Pushes(writes) == 1 + Total(writes, DOMAIN writes)

\* the positions held by the frontier
FrontierPositions(st, a) ==
    IF a = "AStar"
    THEN {st.open_set[i].position : i \in 1..Len(st.open_set)}
    ELSE {Frontier(st, a)[i] : i \in 1..Len(Frontier(st, a))}

\* a step call: the algorithm of the run stays as it is
StepCall == algorithm /= "None" /\ algorithm' = algorithm

\* C29: a step call on a non-empty frontier removes exactly one element of
\* the frontier, inserts its position into closed_set, sets current_node to
\* it and adds exactly 1 to step_count, and returns Continue or PathFound;
\* a step call on an empty frontier leaves step_count as it is.  step_count
\* never decreases and is the number of pops since initialize: the pushes
\* less the elements that are still in the frontier.
StepBookkeeping ==
    [][/\ algorithm' /= "None"
          => ps'.step_count
               = Pushes(came_from_writes') - Len(Frontier(ps', algorithm'))
       /\ StepCall
           => /\ ps'.step_count >= ps.step_count
              /\ Frontier(ps, algorithm) = <<>>
                 => ps'.step_count = ps.step_count /\ result'.kind = "NoPath"
              /\ Frontier(ps, algorithm) /= <<>>
                 => /\ ps'.step_count = ps.step_count + 1
                    /\ result'.kind \in {"Continue", "PathFound"}
                    /\ ps'.current_node /= None
                    /\ ps'.current_node[1] \in FrontierPositions(ps, algorithm)
                    /\ ps'.closed_set = ps.closed_set \cup {ps'.current_node[1]}
                    /\ Len(Frontier(ps', algorithm))
                         = Len(Frontier(ps, algorithm)) - 1
                           + Pushes(came_from_writes') - Pushes(came_from_writes)
                    /\ algorithm = "Bfs"
                       => /\ ps'.current_node[1] = Head(ps.bfs_queue)
                          /\ SubSeq(ps'.bfs_queue, 1, Len(ps.bfs_queue) - 1)
                               = Tail(ps.bfs_queue)
                    /\ algorithm = "Dfs"
                       => /\ ps'.current_node[1] = ps.dfs_stack[Len(ps.dfs_stack)]
                          /\ SubSeq(ps'.dfs_stack, 1, Len(ps.dfs_stack) - 1)
                               = SubSeq(ps.dfs_stack, 1, Len(ps.dfs_stack) - 1)
                    /\ algorithm = "AStar"
                       => \A n \in DOMAIN came_from_writes :
                            Cardinality({i \in 1..Len(ps'.open_set) :
                                           ps'.open_set[i].position = n})
                            = Cardinality({i \in 1..Len(ps.open_set) :
                                             ps.open_set[i].position = n})
                              - (IF n = ps'.current_node[1] THEN 1 ELSE 0)
                              + came_from_writes'[n] - came_from_writes[n]]_vars

\* a DFS run of several pops whose last step returned PathFound with
\* positions left on the stack
StepBookkeepingWitness ==
    /\ algorithm = "Dfs"
    /\ result.kind = "PathFound"
    /\ ps.step_count >= 3
    /\ ps.dfs_stack /= <<>>
    /\ ps.current_node = Some(goal)
    /\ ps.step_count = Pushes(came_from_writes) - Len(ps.dfs_stack)

\* a BFS step that popped a position
BfsPop ==
    /\ algorithm = "Bfs"
    /\ algorithm' = "Bfs"
    /\ ps'.step_count = ps.step_count + 1

\* C30: in a BFS run the position popped is the one enqueued first and the
\* positions discovered are enqueued behind the others; the g_cost of the
\* positions popped one after the other never decreases; no position is
\* popped while a position closer to start is not yet popped; and the
\* g_cost recorded for every discovered position is its shortest distance
\* from start.
BfsLayerByLayer ==
    [][algorithm' = "Bfs"
       => \E dist \in {[p \in Component(grid0, start)
                          |-> ShortestDistance(grid0, start, p)]} :
            /\ BfsPop
               => /\ ps'.last_step_info.pos = Head(ps.bfs_queue)
                  /\ SubSeq(ps'.bfs_queue, 1, Len(ps.bfs_queue) - 1) = Tail(ps.bfs_queue)
                  /\ ps.last_step_info.kind = "pop"
                     => ps'.last_step_info.g >= ps.last_step_info.g
                  /\ ps'.last_step_info.g = dist[ps'.last_step_info.pos]
            /\ DOMAIN ps'.g_costs \subseteq DOMAIN dist
            /\ \A p \in DOMAIN ps'.g_costs : ps'.g_costs[p] = dist[p]
            /\ \A q \in ps'.closed_set : \A p \in DOMAIN dist :
                 dist[p] < dist[q] => p \in ps'.closed_set
            /\ \A k \in 1..(Len(ps'.bfs_queue) - 1) :
                 dist[ps'.bfs_queue[k]] <= dist[ps'.bfs_queue[k + 1]]]_vars

\* a BFS run around obstacles that has popped positions of three layers and
\* holds positions of two layers in its queue
BfsLayerByLayerWitness ==
    /\ algorithm = "Bfs"
    /\ result.kind = "Continue"
    /\ WalkableCells(grid0) /= DOMAIN grid0.cells
    /\ ps.last_step_info.g >= 2
    /\ Len(ps.bfs_queue) >= 2
    /\ ps.g_costs[Head(ps.bfs_queue)] < ps.g_costs[ps.bfs_queue[Len(ps.bfs_queue)]]
    /\ \A p \in DOMAIN ps.g_costs : ps.g_costs[p] = ShortestDistance(grid0, start, p)

\* a DFS step that popped a position
DfsPop ==
    /\ algorithm = "Dfs"
    /\ algorithm' = "Dfs"
    /\ ps'.step_count = ps.step_count + 1

\* the positions a step pushed on a stack that held stack before the step
PushedOn(stack, stack_after) ==
    SubSeq(stack_after, Len(stack), Len(stack_after))

\* the neighbors that the step before admitted, from its neighbor log
Admitted(st) ==
    {st.last_neighbors[i].pos :
       i \in {j \in 1..Len(st.last_neighbors) : st.last_neighbors[j].decision = "push"}}

\* step_dfs of PathfindingState explores north-first: a step pushes the
\* walkable neighbors that it admits in the reverse of the order north, east,
\* south, west.  When the step before admitted a neighbor, the position
\* popped is the admitted neighbor that comes first in the order north, east,
\* south, west; in every case it is the position pushed last among those on
\* the stack.  (Holds under Spec; step_dfs of main.rs is AppDfsNorthFirst.)
DfsNorthFirst ==
    [][DfsPop
       => /\ ps'.last_step_info.pos = ps.dfs_stack[Len(ps.dfs_stack)]
          /\ (ps.last_step_info.kind = "pop" /\ Admitted(ps) /= {})
             => /\ ps'.last_step_info.pos \in Admitted(ps)
                /\ \A n \in Admitted(ps) :
                     Direction(ps.last_step_info.pos, ps'.last_step_info.pos)
                       <= Direction(ps.last_step_info.pos, n)
          /\ \E pushed \in {PushedOn(ps.dfs_stack, ps'.dfs_stack)} :
               /\ \A k \in 1..Len(pushed) :
                    Direction(ps'.last_step_info.pos, pushed[k]) \in 1..4
               /\ \A k \in 1..(Len(pushed) - 1) :
                    Direction(ps'.last_step_info.pos, pushed[k])
                      > Direction(ps'.last_step_info.pos, pushed[k + 1])
               /\ result'.kind = "Continue"
                  => {pushed[k] : k \in 1..Len(pushed)}
                       = {n \in WalkableCells(grid0) :
                            /\ Adjacent(n, ps'.last_step_info.pos)
                            /\ n \notin ps'.closed_set
                            /\ n \notin DOMAIN ps.came_from}]_vars

\* a DFS step that popped the northern one of three neighbors admitted by
\* the step before
DfsNorthFirstWitness ==
    /\ algorithm = "Dfs"
    /\ ps.step_count >= 2
    /\ Len(ps.dfs_stack) >= 2
    /\ ps.last_step_info.pos[2] = ps.came_from[ps.last_step_info.pos][2] - 1
    /\ Adjacent(ps.dfs_stack[Len(ps.dfs_stack)], ps.came_from[ps.last_step_info.pos])
    /\ Cardinality({c \in DOMAIN ps.came_from :
                      ps.came_from[c] = ps.came_from[ps.last_step_info.pos]}) = 3

\* C32: for every algorithm and after any number of steps, every entry
\* child -> parent of came_from has g_costs[child] = g_costs[parent] + 1.
UnitStepCost ==
    algorithm /= "None"
    => \A child \in DOMAIN ps.came_from :
         /\ child \in DOMAIN ps.g_costs
         /\ ps.came_from[child] \in DOMAIN ps.g_costs
         /\ ps.g_costs[child] = ps.g_costs[ps.came_from[child]] + 1

\* an A* run that admitted a position a second time, with a lower g_cost and
\* another parent, and popped the entry it left behind
UnitStepCostWitness ==
    /\ algorithm = "AStar"
    /\ \E c \in DOMAIN came_from_writes : came_from_writes[c] >= 2
    /\ ps.step_count > Cardinality(ps.closed_set)
    /\ ps.last_step_info.kind = "pop"
    /\ ps.last_step_info.g > ps.g_costs[ps.last_step_info.pos]

\* C33: in every algorithm the keys of g_costs are start and the keys of
\* came_from; in an A* run h_costs and f_costs have the same keys, h_costs[p]
\* is the Manhattan distance from p to goal and f_costs[p] is
\* g_costs[p] + h_costs[p].
CostAnnotations ==
    algorithm /= "None"
    => /\ DOMAIN ps.g_costs = {start} \cup DOMAIN ps.came_from
       /\ algorithm = "AStar"
          => /\ DOMAIN ps.h_costs = DOMAIN ps.g_costs
             /\ DOMAIN ps.f_costs = DOMAIN ps.g_costs
             /\ \A p \in DOMAIN ps.g_costs :
                  /\ ps.h_costs[p] = Abs(p[1] - goal[1]) + Abs(p[2] - goal[2])
                  /\ ps.f_costs[p] = ps.g_costs[p] + ps.h_costs[p]

\* an A* run that has discovered several positions, one of them twice, at
\* different distances from start and from goal
CostAnnotationsWitness ==
    /\ algorithm = "AStar"
    /\ Cardinality(DOMAIN ps.came_from) >= 4
    /\ \E c \in DOMAIN came_from_writes : came_from_writes[c] >= 2
    /\ \E p \in DOMAIN ps.h_costs : \E q \in DOMAIN ps.h_costs :
         ps.h_costs[p] /= ps.h_costs[q] /\ ps.g_costs[p] /= ps.g_costs[q]

\* C34: from a grid with no Current cell, in every state after a step that
\* popped position p, the cell of p is Current, no other cell is Current and
\* every other position of closed_set has a Visited cell; the step turns the
\* position popped before from Current to Visited.
OverlayAgeing ==
    [][(algorithm' /= "None" /\ ps'.current_node /= None)
       => /\ grid'.cells[ps'.current_node[1]] = "Current"
          /\ \A c \in DOMAIN grid'.cells :
               grid'.cells[c] = "Current" => c = ps'.current_node[1]
          /\ \A c \in ps'.closed_set \ {ps'.current_node[1]} :
               grid'.cells[c] = "Visited"
          /\ (ps.current_node /= None /\ ps.current_node /= ps'.current_node)
             => /\ grid.cells[ps.current_node[1]] = "Current"
                /\ grid'.cells[ps.current_node[1]] = "Visited"]_vars

\* a run of several steps, the last of which returned Continue: the cell
\* of the position popped last is Current, the cell of start is Visited
OverlayAgeingWitness ==
    /\ algorithm = "Bfs"
    /\ result.kind = "Continue"
    /\ ps.step_count >= 3
    /\ grid.cells[ps.current_node[1]] = "Current"
    /\ grid.cells[start] = "Visited"
    /\ \E c \in DOMAIN grid.cells : grid.cells[c] = "Frontier"

\* C35: mark_path, mark_visited and mark_frontier leave the cell at
\* start_pos and the cell at goal_pos as they are, whatever their
\* classification.
MarkingKeepsEndpoints ==
    [][marking'.op \in {"mark_path", "mark_visited", "mark_frontier"}
       => \A c \in DOMAIN grid.cells :
            (Some(c) = marking'.start_pos \/ Some(c) = marking'.goal_pos)
            => grid'.cells[c] = grid.cells[c]]_vars

\* C36: in a BFS or DFS run the frontier holds no position twice and no
\* position of closed_set, and the positions of the frontier together with
\* closed_set are start and the keys of came_from.
FrontierDisjoint ==
    algorithm \in {"Bfs", "Dfs"}
    => /\ \A i \in 1..Len(Frontier(ps, algorithm)) :
            \A j \in 1..Len(Frontier(ps, algorithm)) :
               Frontier(ps, algorithm)[i] = Frontier(ps, algorithm)[j] => i = j
       /\ FrontierPositions(ps, algorithm) \cap ps.closed_set = {}
       /\ FrontierPositions(ps, algorithm) \cup ps.closed_set
            = {start} \cup DOMAIN ps.came_from

\* a DFS run with several positions on the stack and several closed, which
\* met closed positions and positions of the stack again
FrontierDisjointWitness ==
    /\ algorithm = "Dfs"
    /\ Len(ps.dfs_stack) >= 3
    /\ Cardinality(ps.closed_set) >= 3
    /\ \E i \in 1..Len(ps.last_neighbors) :
         /\ ps.last_neighbors[i].decision = "skip: already seen"
         /\ ps.last_neighbors[i].pos \in FrontierPositions(ps, "Dfs")

\* the position without parent that the back-pointers lead to from c, or
\* None when they lead to a position a second time
RECURSIVE Root(_, _, _)
Root(came_from, c, seen) ==
    IF c \in seen THEN None
    ELSE IF c \notin DOMAIN came_from THEN Some(c)
    ELSE Root(came_from, came_from[c], seen \cup {c})

\* C37: in every algorithm and every reachable state, every parent stored in
\* came_from is a position of closed_set, and the back-pointers lead from
\* every key to start without passing a position twice; reconstruct_path
\* from any key ends, with a path from start to that key.
BackPointerTree ==
    algorithm /= "None"
    => \A c \in DOMAIN ps.came_from :
         /\ ps.came_from[c] \in ps.closed_set
         /\ Root(ps.came_from, c, {}) = Some(start)
         /\ \E path \in {reconstruct_path(ps, c)} :
              /\ path[1] = start
              /\ path[Len(path)] = c
              /\ \A i \in 1..Len(path) : \A j \in 1..Len(path) :
                   path[i] = path[j] => i = j
              /\ \A i \in 1..Len(path) : path[i] \in DOMAIN grid.cells

\* an A* run in which a position changed its parent and a position lies
\* three back-pointers away from start
BackPointerTreeWitness ==
    /\ algorithm = "AStar"
    /\ \E c \in DOMAIN came_from_writes : came_from_writes[c] >= 2
    /\ \E c \in DOMAIN ps.came_from : Len(reconstruct_path(ps, c)) >= 4

\* PathfindingState::g_cost
g_cost(st, pos) == MapGet(st.g_costs, pos)

\* C38: when step returns PathFound(path), in every algorithm, the number
\* of edges of path is the g_cost recorded for goal.
PathCost ==
    result.kind = "PathFound"
    => /\ result.path[Len(result.path)] = goal
       /\ g_cost(ps, result.path[Len(result.path)]) = Some(Len(result.path) - 1)

\* a DFS run around obstacles that found a path longer than the shortest
\* one: the g_cost of goal is the length of that path
PathCostWitness ==
    /\ algorithm = "Dfs"
    /\ result.kind = "PathFound"
    /\ WalkableCells(grid0) /= DOMAIN grid0.cells
    /\ Len(result.path) - 1 > ShortestDistance(grid0, start, goal)
    /\ g_cost(ps, goal) = Some(Len(result.path) - 1)

\* PathfindingState::step_count and PathfindingState::closed_set_len
step_count(st) == st.step_count

closed_set_len(st) == Cardinality(st.closed_set)

\* C39: in BFS and DFS runs step_count() = closed_set_len() in every
\* reachable state, every position being popped at most once; in an A* run
\* step_count() >= closed_set_len().
StepCountClosed ==
    /\ algorithm \in {"Bfs", "Dfs"} => step_count(ps) = closed_set_len(ps)
    /\ algorithm = "AStar" => step_count(ps) >= closed_set_len(ps)
    /\ algorithm = "None" => step_count(ps) = 0 /\ closed_set_len(ps) = 0

\* a BFS run of several pops whose last step met a position of the queue
\* again and did not enqueue it
StepCountClosedWitness ==
    /\ algorithm = "Bfs"
    /\ step_count(ps) >= 4
    /\ closed_set_len(ps) = step_count(ps)
    /\ \E i \in 1..Len(ps.last_neighbors) :
         /\ ps.last_neighbors[i].decision = "skip: already seen"
         /\ ps.last_neighbors[i].pos \in FrontierPositions(ps, "Bfs")

\* ------------------------------------------- RobotNavigationApp (main.rs)
\* the application of main.rs: its own grid, its own PathfindingState, and
\* the flag is_solving that its caller loop reads
AppW == 3
AppH == 2
\* the clicks on the grid and the pops of a search that are followed
MaxClicks == 1
MaxAppSteps == 6
\* the board of RobotNavigationApp::default()
DefaultWidth == 20
DefaultHeight == 15

\* Position::neighbors of main.rs: west, east, north, south
app_neighbors(p) ==
    << <<p[1] - 1, p[2]>>, <<p[1] + 1, p[2]>>, <<p[1], p[2] - 1>>, <<p[1], p[2] + 1>> >>

\* Node of main.rs
AppNode(position, g, h, parent) ==
    [position |-> position, g_cost |-> g, h_cost |-> h, parent |-> parent]

\* impl Default for PathfindingState of main.rs
AppDefaultState ==
    [open_set |-> <<>>, bfs_queue |-> <<>>, dfs_stack |-> <<>>,
     closed_set |-> {}, came_from |-> EmptyMap,
     g_costs |-> EmptyMap, h_costs |-> EmptyMap, f_costs |-> EmptyMap,
     current_node |-> None, found_path |-> FALSE, step_count |-> 0,
     last_step_info |-> <<>>, last_neighbors |-> <<>>]

\* the application as impl Default builds it, on a board of w x h cells with
\* the given obstacles, start and goal: the cells of start and goal are
\* Empty, A* is selected, nothing is being solved
AppOn(w, h, obstacles, start_, goal_) ==
    [grid |-> [width |-> w, height |-> h,
               cells |-> [c \in Cells(w, h) |->
                            IF c \in obstacles THEN "Obstacle" ELSE "Empty"]],
     start_pos |-> Some(start_),
     goal_pos |-> Some(goal_),
     robot_pos |-> Some(start_),
     current_algorithm |-> "AStar",
     is_solving |-> FALSE,
     solving_step |-> 0,
     pathfinding_state |-> None,
     final_path |-> <<>>,
     algorithm_info |-> ""]

\* impl Default for RobotNavigationApp: the walls are grid[7][i] for i in
\* 5..15 and grid[i][12] for i in 2..8
AppDefault ==
    AppOn(DefaultWidth, DefaultHeight,
          {<<i, 7>> : i \in 5..14} \cup {<<12, i>> : i \in 2..7},
          <<2, 2>>, <<17, 12>>)

\* the same on the small board, start in the first corner and goal in the
\* last: without a wall, or with one next to the start
AppSmall(obstacles) == AppOn(AppW, AppH, obstacles, <<0, 0>>, <<AppW - 1, AppH - 1>>)

\* self.grid[pos.y][pos.x] = cell
app_set(a, pos, cell) == [a EXCEPT !.grid.cells[pos] = cell]

\* if self.grid[pos.y][pos.x] == Empty { self.grid[pos.y][pos.x] = Frontier }
app_set_frontier(a, pos) ==
    IF a.grid.cells[pos] = "Empty" THEN app_set(a, pos, "Frontier") ELSE a

\* let state = self.pathfinding_state.as_mut().unwrap(): state replaced
app_with_state(a, state) == [a EXCEPT !.pathfinding_state = Some(state)]

clear_visualization(a) ==
    [a EXCEPT
       !.grid.cells = [c \in DOMAIN @ |->
                         IF @[c] \in {"Visited", "Frontier", "Current", "Path"}
                         THEN "Empty" ELSE @[c]],
       !.is_solving = FALSE,
       !.solving_step = 0,
       !.pathfinding_state = None,
       !.final_path = <<>>,
       !.robot_pos = a.start_pos]

app_is_valid_position(a, pos) ==
    /\ pos[1] >= 0
    /\ pos[1] < a.grid.width
    /\ pos[2] >= 0
    /\ pos[2] < a.grid.height
    /\ a.grid.cells[pos] /= "Obstacle"

\* the state start_pathfinding seeds for the selected algorithm
app_seed(algorithm_, start_, goal_) ==
    LET h == manhattan_distance_to(start_, goal_)
        costs == [AppDefaultState EXCEPT !.g_costs = MapInsert(@, start_, 0),
                                         !.h_costs = MapInsert(@, start_, h)]
    IN  CASE algorithm_ = "AStar" ->
               [costs EXCEPT !.open_set = heap_push(<<>>, AppNode(start_, 0, h, None)),
                             !.f_costs = MapInsert(@, start_, h)]
          [] algorithm_ = "BFS" -> [costs EXCEPT !.bfs_queue = Append(@, start_)]
          [] algorithm_ = "DFS" -> [costs EXCEPT !.dfs_stack = Append(@, start_)]

start_pathfinding(a) ==
    LET cleared == clear_visualization(a) IN
    IF cleared.start_pos /= None /\ cleared.goal_pos /= None
    THEN IF cleared.current_algorithm = "Manual"
         THEN [cleared EXCEPT !.robot_pos = Some(cleared.start_pos[1])]
         ELSE [cleared EXCEPT
                 !.pathfinding_state =
                     Some(app_seed(cleared.current_algorithm,
                                   cleared.start_pos[1], cleared.goal_pos[1])),
                 !.is_solving = TRUE,
                 !.algorithm_info = cleared.current_algorithm]
    ELSE cleared

\* while let Some(&parent) = came_from.get(&current) { path.push(current); .. }
RECURSIVE app_walk(_, _, _)
app_walk(came_from, current, path) ==
    IF current \in DOMAIN came_from
    THEN app_walk(came_from, came_from[current], Append(path, current))
    ELSE path

\* for &pos in &path: cells other than Start and Goal become Path
RECURSIVE app_paint_path(_, _, _)
app_paint_path(a, path, i) ==
    IF i > Len(path) THEN a
    ELSE app_paint_path(
           IF a.grid.cells[path[i]] /= "Start" /\ a.grid.cells[path[i]] /= "Goal"
           THEN app_set(a, path[i], "Path") ELSE a,
           path, i + 1)

reconstruct_path_with_data(a, goal_, came_from) ==
    LET path == Reverse(Append(app_walk(came_from, goal_, <<>>), a.start_pos[1]))
    IN  [app_paint_path(a, path, 1) EXCEPT !.final_path = path]

\* the branch of a step that pops the goal: the path, found_path, and the
\* end of solving
app_found(a, current) ==
    LET r == reconstruct_path_with_data(a, current, a.pathfinding_state[1].came_from)
    IN  [app |-> [r EXCEPT !.pathfinding_state[1].found_path = TRUE,
                           !.is_solving = FALSE],
         out |-> TRUE]

\* the branch of a step that finds its frontier empty
app_exhausted(a, info) ==
    [app |-> [a EXCEPT !.pathfinding_state[1].last_step_info = <<info>>,
                       !.is_solving = FALSE],
     out |-> FALSE]

\* for pos in closed_set: cells other than start_pos and goal_pos become
\* Visited
app_paint_visited(a) ==
    [a EXCEPT !.grid.cells =
        [c \in DOMAIN @ |->
           IF /\ c \in a.pathfinding_state[1].closed_set
              /\ Some(c) /= a.start_pos
              /\ Some(c) /= a.goal_pos
           THEN "Visited" ELSE @[c]]]

\* the first entry of the open-set snapshot that holds neighbor_pos at a g
\* no larger than tentative_g (0: none)
RECURSIVE app_blocking(_, _, _, _)
app_blocking(open_snapshot, i, neighbor_pos, tentative_g) ==
    IF i > Len(open_snapshot) THEN 0
    ELSE IF /\ open_snapshot[i].position = neighbor_pos
            /\ open_snapshot[i].g_cost <= tentative_g
         THEN i
         ELSE app_blocking(open_snapshot, i + 1, neighbor_pos, tentative_g)

\* one NeighborInfo of step_astar
app_astar_info(open_snapshot, neighbor_pos, tentative_g, h_cost) ==
    LET b == app_blocking(open_snapshot, 1, neighbor_pos, tentative_g) IN
    [pos |-> neighbor_pos, g |-> Some(tentative_g), h |-> Some(h_cost),
     f |-> Some(tentative_g + h_cost),
     decision |-> IF b = 0 THEN <<"push", tentative_g, h_cost, tentative_g + h_cost>>
                  ELSE <<"skip", open_snapshot[b].g_cost, tentative_g>>]

\* for (neighbor_pos, neighbor_node) in neighbors_to_add
RECURSIVE app_astar_add(_, _, _, _)
app_astar_add(a, infos, i, current_node) ==
    IF i > Len(infos) THEN a
    ELSE IF infos[i].decision[1] /= "push" THEN app_astar_add(a, infos, i + 1, current_node)
    ELSE LET n == infos[i].pos
             node == AppNode(n, infos[i].g[1], infos[i].h[1], Some(current_node.position))
             state == a.pathfinding_state[1]
             added == [state EXCEPT
                         !.came_from = MapInsert(@, n, current_node.position),
                         !.g_costs = MapInsert(@, n, node.g_cost),
                         !.h_costs = MapInsert(@, n, node.h_cost),
                         !.f_costs = MapInsert(@, n, node.g_cost + node.h_cost),
                         !.open_set = heap_push(@, node)]
         IN  app_astar_add(app_set_frontier(app_with_state(a, added), n),
                           infos, i + 1, current_node)

app_step_astar(a, goal_) ==
    IF a.pathfinding_state[1].open_set = <<>>
    THEN app_exhausted(a, "Open set empty")
    ELSE
    LET state == a.pathfinding_state[1]
        popped == heap_pop(state.open_set)
        current_node == popped.item
        taken == [state EXCEPT !.open_set = popped.data,
                               !.closed_set = @ \cup {current_node.position},
                               !.current_node = Some(current_node.position),
                               !.step_count = @ + 1]
        logged == [taken EXCEPT
                     !.last_step_info =
                         <<"pop", taken.step_count, current_node.position,
                           current_node.g_cost, current_node.h_cost,
                           current_node.g_cost + current_node.h_cost,
                           Len(taken.open_set), Cardinality(taken.closed_set)>>,
                     !.last_neighbors = <<>>]
        current == app_with_state(app_set(a, current_node.position, "Current"), logged)
    IN  IF current_node.position = goal_
        THEN app_found(current, current_node.position)
        ELSE
        LET valid_neighbors ==
                SelectSeq(app_neighbors(current_node.position),
                          LAMBDA pos : app_is_valid_position(current, pos))
            neighbors_to_process ==
                SelectSeq(valid_neighbors, LAMBDA pos : pos \notin logged.closed_set)
            open_snapshot == logged.open_set
            infos == [i \in 1..Len(neighbors_to_process) |->
                        app_astar_info(open_snapshot, neighbors_to_process[i],
                                       current_node.g_cost + 1,
                                       manhattan_distance_to(neighbors_to_process[i], goal_))]
            informed == app_with_state(current, [logged EXCEPT !.last_neighbors = infos])
        IN  [app |-> app_paint_visited(app_astar_add(informed, infos, 1, current_node)),
             out |-> FALSE]

\* *state.g_costs.get(&current).unwrap_or(&0)
app_g_or_zero(state, current) ==
    IF current \in DOMAIN state.g_costs THEN state.g_costs[current] ELSE 0

\* for nb in neighbors, of step_bfs (frontier "bfs_queue") and of step_dfs
\* (frontier "dfs_stack"): a neighbor in one of the two snapshots is skipped,
\* any other is discovered
RECURSIVE app_discover(_, _, _, _, _, _, _)
app_discover(a, nbrs, i, current, goal_, seen, frontier) ==
    IF i > Len(nbrs) THEN a
    ELSE LET nb == nbrs[i]
             state == a.pathfinding_state[1]
             h == manhattan_distance_to(nb, goal_)
         IN  IF nb \in seen
             THEN app_discover(
                    app_with_state(a, [state EXCEPT !.last_neighbors =
                        Append(@, [pos |-> nb, g |-> None, h |-> Some(h), f |-> None,
                                   decision |-> <<"skip: already seen">>])]),
                    nbrs, i + 1, current, goal_, seen, frontier)
             ELSE LET new_g == app_g_or_zero(state, current) + 1
                      found == [state EXCEPT
                                  !.came_from = MapInsert(@, nb, current),
                                  !.g_costs = MapInsert(@, nb, new_g),
                                  !.h_costs = MapInsert(@, nb, h),
                                  ![frontier] = Append(@, nb),
                                  !.last_neighbors =
                                      Append(@, [pos |-> nb, g |-> Some(new_g),
                                                 h |-> Some(h), f |-> None,
                                                 decision |->
                                                   IF frontier = "bfs_queue"
                                                   THEN <<"enqueue">> ELSE <<"push">>])]
                  IN  app_discover(app_set_frontier(app_with_state(a, found), nb),
                                   nbrs, i + 1, current, goal_, seen, frontier)

\* a step of step_bfs or of step_dfs from the pop on: rest is the frontier
\* that remains, nbrs the neighbors in the order they are visited
app_popped(a, goal_, current, rest, frontier, reversed) ==
    LET state == a.pathfinding_state[1]
        taken == [state EXCEPT ![frontier] = rest,
                               !.current_node = Some(current),
                               !.closed_set = @ \cup {current},
                               !.step_count = @ + 1]
        logged == [taken EXCEPT
                     !.last_step_info =
                         <<"pop", taken.step_count, current,
                           app_g_or_zero(taken, current),
                           Len(rest), Cardinality(taken.closed_set)>>,
                     !.h_costs = MapInsert(@, current, manhattan_distance_to(current, goal_)),
                     !.last_neighbors = <<>>]
        at == app_with_state(app_set(a, current, "Current"), logged)
    IN  IF current = goal_
        THEN app_found(at, current)
        ELSE
        LET valid == SelectSeq(app_neighbors(current),
                               LAMBDA p : app_is_valid_position(at, p))
            nbrs == IF reversed THEN Reverse(valid) ELSE valid
            seen == logged.closed_set \cup DOMAIN logged.came_from
        IN  [app |-> app_paint_visited(
                       app_discover(at, nbrs, 1, current, goal_, seen, frontier)),
             out |-> FALSE]

app_step_bfs(a, goal_) ==
    IF a.pathfinding_state[1].bfs_queue = <<>>
    THEN app_exhausted(a, "Queue empty")
    ELSE app_popped(a, goal_, Head(a.pathfinding_state[1].bfs_queue),
                    Tail(a.pathfinding_state[1].bfs_queue), "bfs_queue", FALSE)

app_step_dfs(a, goal_) ==
    IF a.pathfinding_state[1].dfs_stack = <<>>
    THEN app_exhausted(a, "Stack empty")
    ELSE app_popped(a, goal_, pop_back(a.pathfinding_state[1].dfs_stack).item,
                    pop_back(a.pathfinding_state[1].dfs_stack).rest, "dfs_stack", TRUE)

\* variant of step_pathfinding: is_solving not looked at
step_pathfinding_any_time(a) ==
    IF a.pathfinding_state = None
    THEN [app |-> a, out |-> FALSE]
    ELSE CASE a.current_algorithm = "AStar" -> app_step_astar(a, a.goal_pos[1])
           [] a.current_algorithm = "BFS" -> app_step_bfs(a, a.goal_pos[1])
           [] a.current_algorithm = "DFS" -> app_step_dfs(a, a.goal_pos[1])
           [] OTHER -> [app |-> a, out |-> FALSE]

\* the application after the call, and the value the call returns
step_pathfinding(a) ==
    IF ~a.is_solving \/ a.pathfinding_state = None
    THEN [app |-> a, out |-> FALSE]
    ELSE CASE a.current_algorithm = "AStar" -> app_step_astar(a, a.goal_pos[1])
           [] a.current_algorithm = "BFS" -> app_step_bfs(a, a.goal_pos[1])
           [] a.current_algorithm = "DFS" -> app_step_dfs(a, a.goal_pos[1])
           [] OTHER -> [app |-> a, out |-> FALSE]

\* a click on a cell of the grid with the selected tool
handle_grid_click(a, tool, pos) ==
    IF pos[1] < 0 \/ pos[1] >= a.grid.width \/ pos[2] < 0 \/ pos[2] >= a.grid.height
    THEN a
    ELSE CASE tool = "SetStart" ->
                [(IF a.start_pos /= None /\ a.grid.cells[a.start_pos[1]] /= "Goal"
                  THEN app_set(a, a.start_pos[1], "Empty") ELSE a)
                 EXCEPT !.start_pos = Some(pos), !.robot_pos = Some(pos),
                        !.grid.cells[pos] = "Start"]
           [] tool = "SetGoal" ->
                [(IF a.goal_pos /= None /\ a.grid.cells[a.goal_pos[1]] /= "Start"
                  THEN app_set(a, a.goal_pos[1], "Empty") ELSE a)
                 EXCEPT !.goal_pos = Some(pos), !.grid.cells[pos] = "Goal"]
           [] tool = "AddObstacle" ->
                IF a.grid.cells[pos] = "Empty" THEN app_set(a, pos, "Obstacle") ELSE a
           [] tool = "RemoveObstacle" ->
                IF a.grid.cells[pos] = "Obstacle" THEN app_set(a, pos, "Empty") ELSE a

\* the engine of the library is not used by the application of main.rs
AppFrame ==
    UNCHANGED <<ps, grid, grid0, algorithm, start, goal, result, came_from_writes, marking>>

\* the application as main() builds it, on the board of the program or on
\* the small one
InitApp ==
    /\ app \in {AppDefault} \cup {AppSmall({}), AppSmall({<<1, 0>>})}
    /\ clicks = 0
    /\ call = NoCall
    /\ grid = NewGrid(1, 1, {}, <<0, 0>>, <<0, 0>>)
    /\ grid0 = grid
    /\ start = <<0, 0>>
    /\ goal = <<0, 0>>
    /\ ps = DefaultState
    /\ algorithm = "None"
    /\ result = NoResult
    /\ came_from_writes = [c \in Cells(1, 1) |-> 0]
    /\ marking = NoMarking

\* the ComboBox of update(): an algorithm selected, at any time
SelectAlgorithm(alg) ==
    /\ app' = [app EXCEPT !.current_algorithm = alg]
    /\ call' = [op |-> "select"]
    /\ UNCHANGED clicks
    /\ AppFrame

\* the click handler of update(): a click on a cell with the selected tool,
\* before a search, in the middle of one or after it
HandleGridClick(tool, pos) ==
    /\ clicks < MaxClicks
    /\ clicks' = clicks + 1
    /\ app' = handle_grid_click(app, tool, pos)
    /\ call' = [op |-> "handle_grid_click", tool |-> tool, pos |-> pos]
    /\ AppFrame

\* the button Start Pathfinding
StartPathfinding ==
    /\ app' = start_pathfinding(app)
    /\ call' = [op |-> "start_pathfinding"]
    /\ UNCHANGED clicks
    /\ AppFrame

\* the button Clear
ClearVisualization ==
    /\ app' = clear_visualization(app)
    /\ call' = [op |-> "clear_visualization"]
    /\ UNCHANGED clicks
    /\ AppFrame

\* step_pathfinding called, as update() calls it while is_solving holds, or
\* by a caller that does not look at is_solving: call records what it
\* returned
StepPathfinding ==
    /\ \E r \in {step_pathfinding(app)} :
         /\ r.app.pathfinding_state /= None
            => r.app.pathfinding_state[1].step_count <= MaxAppSteps
         /\ app' = r.app
         /\ call' = [op |-> "step_pathfinding", out |-> r.out]
    /\ UNCHANGED clicks
    /\ AppFrame

NextApp ==
    \/ \E alg \in {"Manual", "BFS", "DFS", "AStar"} : SelectAlgorithm(alg)
    \/ \E tool \in {"SetStart", "SetGoal", "AddObstacle", "RemoveObstacle"} :
         \E pos \in Cells(AppW, AppH) : HandleGridClick(tool, pos)
    \/ StartPathfinding
    \/ ClearVisualization
    \/ StepPathfinding

SpecApp == InitApp /\ [][NextApp]_vars

\* the frontier of the selected algorithm in the state of the application
AppFrontier(a) ==
    CASE a.current_algorithm = "AStar" -> a.pathfinding_state[1].open_set
      [] a.current_algorithm = "BFS" -> a.pathfinding_state[1].bfs_queue
      [] a.current_algorithm = "DFS" -> a.pathfinding_state[1].dfs_stack
      [] OTHER -> <<>>

\* a transition that is a call of step_pathfinding
AppStepCall == call'.op = "step_pathfinding"

\* the call finds the frontier of the selected algorithm empty
AppFindsEmpty ==
    /\ app.is_solving
    /\ app.pathfinding_state /= None
    /\ app.current_algorithm /= "Manual"
    /\ AppFrontier(app) = <<>>

\* the call pops the goal
AppFindsGoal ==
    /\ app.is_solving
    /\ app'.pathfinding_state /= None
    /\ app'.pathfinding_state[1].step_count = app.pathfinding_state[1].step_count + 1
    /\ app'.pathfinding_state[1].current_node = app.goal_pos

\* C40: in the application of main.rs, the call of step_pathfinding that
\* pops the goal or finds the frontier empty leaves is_solving false; a call
\* made while is_solving is false returns false and changes neither the
\* pathfinding state, the grid nor final_path; and is_solving turns true
\* only in start_pathfinding
CallerLoop ==
    [][ /\ (AppStepCall /\ (AppFindsGoal \/ AppFindsEmpty)) => ~app'.is_solving
        /\ (AppStepCall /\ ~app.is_solving) =>
              /\ call'.out = FALSE
              /\ app'.pathfinding_state = app.pathfinding_state
              /\ app'.grid = app.grid
              /\ app'.final_path = app.final_path
              /\ ~app'.is_solving
        /\ (~app.is_solving /\ app'.is_solving) => call'.op = "start_pathfinding"
      ]_vars

\* a path was found while the frontier still held positions, and a call of
\* step_pathfinding made after it returned false
CallerLoopWitness ==
    /\ call.op = "step_pathfinding"
    /\ call.out = FALSE
    /\ ~app.is_solving
    /\ app.pathfinding_state /= None
    /\ app.pathfinding_state[1].found_path
    /\ Len(app.final_path) >= 3
    /\ AppFrontier(app) /= <<>>

\* a call of step_pathfinding that runs step_dfs of main.rs and pops a
\* position
AppDfsPop ==
    /\ AppStepCall
    /\ app.is_solving
    /\ app.current_algorithm = "DFS"
    /\ app.pathfinding_state /= None
    /\ app'.pathfinding_state /= None
    /\ app'.pathfinding_state[1].step_count = app.pathfinding_state[1].step_count + 1

\* the neighbors that the step before admitted, from its neighbor log
AppAdmitted(st) ==
    {st.last_neighbors[i].pos :
       i \in {j \in 1..Len(st.last_neighbors) : st.last_neighbors[j].decision = <<"push">>}}

\* C31: DFS explores north-first, stated of step_dfs of main.rs.  A DFS step
\* pushes the walkable neighbors that it admits in the reverse of the order
\* north, east, south, west; when the step before admitted a neighbor, the
\* position popped is the admitted neighbor that comes first in the order
\* north, east, south, west; in every case the position popped is the one
\* pushed last among those on the stack.
AppDfsNorthFirst ==
    [][AppDfsPop
       => /\ app'.pathfinding_state[1].current_node
               = Some(app.pathfinding_state[1].dfs_stack[Len(app.pathfinding_state[1].dfs_stack)])
          /\ (/\ call.op = "step_pathfinding"
              /\ app.pathfinding_state[1].current_node /= None
              /\ AppAdmitted(app.pathfinding_state[1]) /= {})
             => /\ app'.pathfinding_state[1].current_node[1]
                     \in AppAdmitted(app.pathfinding_state[1])
                /\ \A n \in AppAdmitted(app.pathfinding_state[1]) :
                     Direction(app.pathfinding_state[1].current_node[1],
                               app'.pathfinding_state[1].current_node[1])
                       <= Direction(app.pathfinding_state[1].current_node[1], n)
          /\ \E pushed \in {PushedOn(app.pathfinding_state[1].dfs_stack,
                                      app'.pathfinding_state[1].dfs_stack)} :
               /\ \A k \in 1..Len(pushed) :
                    Direction(app'.pathfinding_state[1].current_node[1], pushed[k]) \in 1..4
               /\ \A k \in 1..(Len(pushed) - 1) :
                    Direction(app'.pathfinding_state[1].current_node[1], pushed[k])
                      > Direction(app'.pathfinding_state[1].current_node[1], pushed[k + 1])]_vars
====
